---- MODULE Spec2Model ----
(***************************************************************************)
(* Model of the skycoach scraper: the option-type normalizer, the          *)
(* snapshot/diff option extraction, the hierarchical importer and the      *)
(* thread-pool scraper that shares the services and options files.         *)
(*                                                                         *)
(* A text such as an option_type is a sequence of tokens: a base word      *)
(* followed by "_value" suffix tokens, so that "ends with _value" and      *)
(* "strip the suffix" are computed as the code computes them.              *)
(***************************************************************************)
EXTENDS Integers, Sequences, FiniteSets, TLC

VARIABLES
  \* ---- normalizer pipeline (normalize_option_types_in_rows, clean_option_types)
  npc,            \* "raw", "norm1", "norm2", "cleaned"
  nraw,           \* the batch as the writers emitted it
  nrows,          \* the batch after the normalizations applied so far
  nprev,          \* the batch before the last normalization
  ncleaned,       \* the option types handed to the option insert
  \* ---- thread-pool scraper (yeh_scrrrapper..py)
  wpc,            \* position of each worker
  id_lock, services_lock, options_lock,   \* 0 = free, else the holding worker
  service_id,     \* each worker's allocated service id (0 = none yet)
  wbatch,         \* each worker's extracted option ids
  services_csv,   \* rows of the services file: [service_id, by]
  options_csv,    \* rows of the options file: [option_id, service_id, by]
  \* ---- snapshot extraction (extract_options_with_snapshots)
  xpc,            \* "idle", "start", "loop", "done"
  variant,        \* "db" = scrapper_db.py, "fixed" = complete_code.py
  scenario,       \* TRUE: the page is the end-to-end scenario page
  page0,          \* groups visible when the page is loaded, in DOM order
  baseline_sigs,  \* (kind, label) -> signature last recorded
  rows_out,       \* the batch
  option_id,      \* id cursor
  display_order,  \* display-order cursor
  radio_values,   \* values of the trigger's radio inputs, in DOM order
  vi,             \* index of the next trigger value
  radio_value_parent_row_ids,  \* trigger value -> option_id of its choice row
  reveal,         \* scenario page: the groups shown only while Hard is selected
  scans,          \* history: the groups seen by each rescan
  emitted,        \* history: one entry per group written to the batch
  \* ---- importer (import_csv_to_database)
  ipc,            \* "off", "idle", "begin", "inserting", "failed", "done"
  svc_file,       \* rows of the services file
  opt_file,       \* rows of the options file
  db_services, db_options,   \* committed rows of the two tables
  tx_services, tx_options,   \* rows inserted by the open transaction
  next_service_rowid, next_option_rowid,   \* AUTO_INCREMENT counters
  run,            \* runs of the import started so far
  sidx,           \* index of the service row being imported
  db_service_id,  \* storage id of the current service
  parents, children,   \* the current service's option rows, sorted
  pi, ci,         \* next parent, next child
  id_map,         \* option_id of the file -> storage id
  before_run,     \* history: the stored rows when the run started
  committed_in_run,    \* history: rows committed by this run
  discarded,      \* history: rows dropped by the rollback
  cnx,            \* the cursor and connection: "none", "open", "closed"
  raised,         \* history: <<run, sidx>> of the service whose insert raised
  \* ---- scrape loop of main (process_listing_file, complete_code.main)
  ppc,            \* "off", "ready", "scraping", "import"
  product,        \* product pages taken from the listing so far
  container,      \* the page has an options container
  scrape_service_id,    \* the service_id of the scrape in progress
  main_service_id,      \* complete_code.main's service_id counter
  successful_scrapes,   \* complete_code.main's count of successes
  results,        \* history: one entry per finished scrape
  \* ---- option classifier (group_kind_and_signature)
  gpc,            \* "input", "classified", "compared"
  gvariant,       \* "db" = scrapper_db.py, "fixed" = complete_code.py
  group_el,       \* the group node of the first scan
  rescan_el,      \* the same group as the second scan finds it
  changed,        \* what differs between the two nodes
  first_sig,      \* (kind, label, signature) of the first scan
  second_sig,     \* (kind, label, signature) of the second scan
  \* ---- price-modifier parsers
  mpc,            \* "input", "parsed"
  parser,         \* which module's parser is called
  price_text,     \* the text handed to the parser, a sequence of characters
  modifier,       \* what the parser returned
  \* ---- stabilization wait of the snapshot loop (wait_dom_change)
  polls,          \* polls of the container made since the click
  wait_result,    \* "none", "changed" (cur_sig returned), "timeout" (prev_sig returned)
  clicks          \* history: the positions in radio_values that were clicked

nvars == <<npc, nraw, nrows, nprev, ncleaned>>
wvars == <<wpc, id_lock, services_lock, options_lock, service_id, wbatch,
           services_csv, options_csv>>
xvars == <<xpc, variant, scenario, page0, baseline_sigs, rows_out, option_id,
           display_order, radio_values, vi, radio_value_parent_row_ids, reveal, scans,
           emitted>>
ivars == <<ipc, svc_file, opt_file, db_services, db_options, tx_services, tx_options,
           next_service_rowid, next_option_rowid, run, sidx, db_service_id, parents,
           children, pi, ci, id_map, before_run, committed_in_run, discarded, cnx, raised>>
pvars == <<ppc, product, container, scrape_service_id, main_service_id,
           successful_scrapes, results>>
gvars == <<gpc, gvariant, group_el, rescan_el, changed, first_sig, second_sig>>
mvars == <<mpc, parser, price_text, modifier>>
tvars == <<polls, wait_result, clicks>>
vars == <<nvars, wvars, xvars, ivars, pvars, gvars, mvars, tvars>>

\* ------------------------------------------------------------------ bounds
MaxSuffix == 2      \* longest run of "_value" suffixes on a raw option_type
MaxRows == 2        \* rows in a batch handed to the normalizer
NumWorkers == 2     \* concurrent workers of the thread pool
MaxBatch == 2       \* option rows one worker extracts from a page

\* ----------------------------------------------------------------- helpers
Max(S) == IF S = {} THEN 0 ELSE CHOOSE x \in S : \A y \in S : y <= x

Range(s) == {s[i] : i \in 1..Len(s)}

\* =========================================================================
\* Normalizer
\* =========================================================================
Suffix == "_value"

\* the persisted vocabulary
Vocabulary ==
  {<<"slider">>, <<"range">>, <<"radio">>, <<"checkbox">>, <<"dropdown">>}

\* option types the writers of the three snapshot scrapers put in a row,
\* per kind: the group row's type and the child rows' type
EmittedTypes(v, kind) ==
  CASE v = "db" ->
         (CASE kind = "slider"   -> [group |-> <<"slider">>,   child |-> <<"slider">>]
            [] kind = "range"    -> [group |-> <<"range">>,    child |-> <<"range">>]
            [] kind = "radio"    -> [group |-> <<"radio">>,    child |-> <<"radio">>]
            [] kind = "buttons"  -> [group |-> <<"radio">>,    child |-> <<"radio">>]
            [] kind = "checkbox" -> [group |-> <<"checkbox">>, child |-> <<"checkbox">>]
            [] kind = "select"   -> [group |-> <<"dropdown">>, child |-> <<"dropdown">>])
    [] v = "fixed" ->
         (CASE kind = "slider"   -> [group |-> <<"slider">>,   child |-> <<"slider", Suffix>>]
            [] kind = "range"    -> [group |-> <<"range">>,    child |-> <<"range", Suffix>>]
            [] kind = "radio"    -> [group |-> <<"radio">>,    child |-> <<"radio">>]
            [] kind = "buttons"  -> [group |-> <<"radio">>,    child |-> <<"radio">>]
            [] kind = "checkbox" -> [group |-> <<"checkbox">>, child |-> <<"checkbox">>]
            [] kind = "select"   -> [group |-> <<"dropdown">>, child |-> <<"dropdown">>])
    [] v = "test" ->
         (CASE kind = "slider"   -> [group |-> <<"slider">>,   child |-> <<"slider", Suffix>>]
            [] kind = "buttons"  -> [group |-> <<"buttons">>,  child |-> <<"button", Suffix>>]
            [] kind = "radio"    -> [group |-> <<"radio">>,    child |-> <<"radio", Suffix>>]
            [] kind = "checkbox" -> [group |-> <<"checkbox">>, child |-> <<"checkbox", Suffix>>]
            [] kind = "select"   -> [group |-> <<"dropdown">>, child |-> <<"dropdown", Suffix>>])

WritableKinds(v) ==
  IF v = "test" THEN {"slider", "buttons", "radio", "checkbox", "select"}
  ELSE {"slider", "range", "radio", "buttons", "checkbox", "select"}

WriterTypes ==
  UNION {{EmittedTypes(v, k).group, EmittedTypes(v, k).child} :
           v \in {"db", "fixed", "test"}, k \in {"slider", "buttons", "radio", "checkbox", "select"}}
  \cup {EmittedTypes(v, "range").group : v \in {"db", "fixed"}}
  \cup {EmittedTypes(v, "range").child : v \in {"db", "fixed"}}

\* every text the normalizer can be handed: an optional base word and up to
\* MaxSuffix "_value" suffixes
BaseWords == {"slider", "range", "radio", "checkbox", "dropdown", "button", "buttons"}

Suffixes(k) == [i \in 1..k |-> Suffix]

RawTypes ==
  {Suffixes(k) : k \in 0..MaxSuffix}
  \cup {<<b>> \o Suffixes(k) : b \in BaseWords, k \in 0..MaxSuffix}

normalize_option_type_nomap(t) ==
  IF Len(t) > 0 /\ t[Len(t)] = Suffix THEN SubSeq(t, 1, Len(t) - 1) ELSE t

\* one row's option_type: strip one trailing "_value", then button(s) -> radio
normalize_option_type(t) ==
  LET t1 == IF Len(t) > 0 /\ t[Len(t)] = Suffix THEN SubSeq(t, 1, Len(t) - 1) ELSE t
  IN  IF t1 \in {<<"button">>, <<"buttons">>} THEN <<"radio">> ELSE t1

normalize_option_types_in_rows(rows) ==
  [i \in 1..Len(rows) |-> [rows[i] EXCEPT !.option_type = normalize_option_type(@)]]

\* the importer's normalization of the option_type column
clean_option_types(rows) ==
  [i \in 1..Len(rows) |->
     LET t  == rows[i].option_type
         t1 == IF Len(t) > 0 /\ t[Len(t)] = Suffix THEN SubSeq(t, 1, Len(t) - 1) ELSE t
         t2 == IF t1 \in {<<"buttons">>, <<"button">>} THEN <<"radio">> ELSE t1
     IN  [rows[i] EXCEPT !.option_type = t2]]

NormBatches(n) == [1..n -> [option_id : {0}, option_type : RawTypes]]

NumberRows(rows) == [i \in 1..Len(rows) |-> [rows[i] EXCEPT !.option_id = i]]

NormIdle ==
  /\ npc = "idle" /\ nraw = <<>> /\ nrows = <<>> /\ nprev = <<>> /\ ncleaned = <<>>

InitNorm ==
  /\ npc = "raw"
  /\ \E n \in 1..MaxRows : \E b \in NormBatches(n) : nraw = NumberRows(b)
  /\ nrows = nraw
  /\ nprev = <<>>
  /\ ncleaned = <<>>

\* rows = normalize_option_types_in_rows(rows), a first or a second time
NormalizeRows ==
  /\ npc \in {"raw", "norm1"}
  /\ nprev' = nrows
  /\ nrows' = normalize_option_types_in_rows(nrows)
  /\ npc' = IF npc = "raw" THEN "norm1" ELSE "norm2"
  /\ UNCHANGED <<nraw, ncleaned, wvars, xvars, ivars, pvars, gvars, mvars, tvars>>

\* the file is written and read back; the importer cleans the column
CleanForInsert ==
  /\ npc \in {"norm1", "norm2"}
  /\ ncleaned' = clean_option_types(nrows)
  /\ npc' = "cleaned"
  /\ UNCHANGED <<nraw, nrows, nprev, wvars, xvars, ivars, pvars, gvars, mvars, tvars>>

\* =========================================================================
\* Thread-pool scraper: extract_service_info_and_options run by several
\* workers over the shared services and options files
\* =========================================================================
Workers == 1..NumWorkers

WorkersIdle ==
  /\ wpc = [w \in Workers |-> "idle"]
  /\ id_lock = 0 /\ services_lock = 0 /\ options_lock = 0
  /\ service_id = [w \in Workers |-> 0]
  /\ wbatch = [w \in Workers |-> {}]
  /\ services_csv = <<>> /\ options_csv = <<>>

InitWorkers ==
  /\ wpc = [w \in Workers |-> "start"]
  /\ id_lock = 0 /\ services_lock = 0 /\ options_lock = 0
  /\ service_id = [w \in Workers |-> 0]
  /\ wbatch = [w \in Workers |-> {}]
  /\ services_csv = <<>> /\ options_csv = <<>>

\* with id_lock:
AcquireIdLock(w) ==
  /\ wpc[w] = "start" /\ id_lock = 0
  /\ id_lock' = w
  /\ wpc' = [wpc EXCEPT ![w] = "id_locked"]
  /\ UNCHANGED <<services_lock, options_lock, service_id, wbatch, services_csv, options_csv, nvars, xvars, ivars, pvars, gvars, mvars, tvars>>

\* get_next_service_id_from_services_csv: with services_lock, open(...)
AcquireServicesLockRead(w) ==
  /\ wpc[w] = "id_locked" /\ services_lock = 0
  /\ services_lock' = w
  /\ wpc' = [wpc EXCEPT ![w] = "svc_reading"]
  /\ UNCHANGED <<id_lock, options_lock, service_id, wbatch, services_csv, options_csv, nvars, xvars, ivars, pvars, gvars, mvars, tvars>>

\* max service_id in the file + 1; leaving the with block frees services_lock
ReadNextServiceId(w) ==
  /\ wpc[w] = "svc_reading"
  /\ service_id' = [service_id EXCEPT ![w] = Max({r.service_id : r \in Range(services_csv)}) + 1]
  /\ services_lock' = 0
  /\ wpc' = [wpc EXCEPT ![w] = "have_sid"]
  /\ UNCHANGED <<id_lock, options_lock, wbatch, services_csv, options_csv, nvars, xvars, ivars, pvars, gvars, mvars, tvars>>

ReleaseIdLockKeepsLock(w) ==
  /\ wpc[w] = "have_sid"
  /\ wpc' = [wpc EXCEPT ![w] = "parsed"]
  /\ UNCHANGED <<id_lock, services_lock, options_lock, service_id, wbatch, services_csv, options_csv, nvars, xvars, ivars, pvars, gvars, mvars, tvars>>

\* end of "with id_lock"
ReleaseIdLock(w) ==
  /\ wpc[w] = "have_sid"
  /\ id_lock' = 0
  /\ wpc' = [wpc EXCEPT ![w] = "parsed"]
  /\ UNCHANGED <<services_lock, options_lock, service_id, wbatch, services_csv, options_csv, nvars, xvars, ivars, pvars, gvars, mvars, tvars>>

\* with services_lock, open(SERVICES_CSV, "a")
AcquireServicesLockWrite(w) ==
  /\ wpc[w] = "parsed" /\ services_lock = 0
  /\ services_lock' = w
  /\ wpc' = [wpc EXCEPT ![w] = "svc_writing"]
  /\ UNCHANGED <<id_lock, options_lock, service_id, wbatch, services_csv, options_csv, nvars, xvars, ivars, pvars, gvars, mvars, tvars>>

WriteServiceRow(w) ==
  /\ wpc[w] = "svc_writing"
  /\ services_csv' = Append(services_csv, [service_id |-> service_id[w], by |-> w])
  /\ services_lock' = 0
  /\ wpc' = [wpc EXCEPT ![w] = "svc_written"]
  /\ UNCHANGED <<id_lock, options_lock, service_id, wbatch, options_csv, nvars, xvars, ivars, pvars, gvars, mvars, tvars>>

\* get_next_option_id_from_options_csv: with options_lock, open(...)
AcquireOptionsLockRead(w) ==
  /\ wpc[w] = "svc_written" /\ options_lock = 0
  /\ options_lock' = w
  /\ wpc' = [wpc EXCEPT ![w] = "opt_reading"]
  /\ UNCHANGED <<id_lock, services_lock, service_id, wbatch, services_csv, options_csv, nvars, xvars, ivars, pvars, gvars, mvars, tvars>>

\* option_id_counter = max option_id in the file + 1; the page then yields n
\* rows numbered from it; an empty batch is not appended
ReadNextOptionId(w) ==
  /\ wpc[w] = "opt_reading"
  /\ \E n \in 0..MaxBatch :
       LET start == Max({r.option_id : r \in Range(options_csv)}) + 1
       IN  /\ wbatch' = [wbatch EXCEPT ![w] = start..(start + n - 1)]
           /\ wpc' = [wpc EXCEPT ![w] = IF n = 0 THEN "done" ELSE "extracted"]
  /\ options_lock' = 0
  /\ UNCHANGED <<id_lock, services_lock, service_id, services_csv, options_csv, nvars, xvars, ivars, pvars, gvars, mvars, tvars>>

\* append_options: with options_lock, open(SERVICE_OPTIONS_CSV, "a")
AcquireOptionsLockWrite(w) ==
  /\ wpc[w] = "extracted" /\ options_lock = 0
  /\ options_lock' = w
  /\ wpc' = [wpc EXCEPT ![w] = "opt_writing"]
  /\ UNCHANGED <<id_lock, services_lock, service_id, wbatch, services_csv, options_csv, nvars, xvars, ivars, pvars, gvars, mvars, tvars>>

RECURSIVE BatchRows(_, _, _)
BatchRows(ids, sid, w) ==
  IF ids = {} THEN <<>>
  ELSE LET m == CHOOSE x \in ids : \A y \in ids : x <= y
       IN  <<[option_id |-> m, service_id |-> sid, by |-> w]>> \o BatchRows(ids \ {m}, sid, w)

AppendOptionRows(w) ==
  /\ wpc[w] = "opt_writing"
  /\ options_csv' = options_csv \o BatchRows(wbatch[w], service_id[w], w)
  /\ options_lock' = 0
  /\ wpc' = [wpc EXCEPT ![w] = "done"]
  /\ UNCHANGED <<id_lock, services_lock, service_id, wbatch, services_csv, nvars, xvars, ivars, pvars, gvars, mvars, tvars>>

\* =========================================================================
\* Snapshot extraction: extract_options_with_snapshots (scrapper_db.py) and
\* extract_options_with_snapshots_fixed (complete_code.py)
\* =========================================================================
\* A group as a scan of the page sees it:
\*   kind   what group_kind_and_signature classified it as
\*   label  the label used as key, a sequence of lower-case words
\*   items  the visible choices (their values), or the numeric inputs' values
\*   scale  first and last tick of a numeric scale, <<>> otherwise
\*   labels how many per-input labels a numeric cluster shows
\*   hidden radio inputs that are in the DOM without a visible radio option
Group(kind, label, items, scale, labels, hidden) ==
  [kind |-> kind, label |-> label, items |-> items, scale |-> scale,
   labels |-> labels, hidden |-> hidden]

NoParent == 0        \* parent_option_id None
NoValue == "none"    \* option_value None
ServiceId == 1       \* the service_id the extraction is called with

DifficultyLabel == <<"difficulty">>

\* the canonical string the signature hashes; sha256 is taken as injective
Signature(g) ==
  CASE g.kind = "range"  -> <<"range", g.label, g.labels, g.scale, g.items>>
    [] g.kind = "slider" -> <<"slider", g.label, g.scale, SubSeq(g.items, 1, IF Len(g.items) > 0 THEN 1 ELSE 0)>>
    [] g.kind = "unknown" -> <<"unknown", g.label, g.items>>
    [] OTHER -> <<g.kind, g.label, g.items>>

Key(g) == <<g.kind, g.label>>

IsDifficulty(g) == g.kind = "radio" /\ g.label = DifficultyLabel

\* number of child rows a writer appends after the group row
ChildCount(v, g) ==
  CASE g.kind = "slider" -> IF v = "db" THEN 1 ELSE (IF g.labels > 0 THEN g.labels ELSE 1)
    [] g.kind = "range"  -> IF v = "db" THEN 2 ELSE (IF g.labels > 0 THEN g.labels ELSE 1)
    [] OTHER -> Len(g.items)

\* last word of a child row's option_name
ChildWord(v, g, i) ==
  CASE g.kind = "slider" -> "value"
    [] g.kind = "range"  -> IF v = "db" THEN (IF i = 1 THEN "from" ELSE "to") ELSE "value"
    [] OTHER -> g.items[i]

ChildValue(g, i) ==
  IF g.kind \in {"slider", "range"}
  THEN (IF i <= Len(g.items) THEN g.items[i] ELSE "")
  ELSE g.items[i]

WriteGroupSkewed(v, g, parent, sid, oid, ord) ==
  IF g.kind \notin WritableKinds(v) THEN <<>>
  ELSE
    <<[option_id |-> oid, service_id |-> sid, parent_option_id |-> parent,
       option_type |-> EmittedTypes(v, g.kind).group, option_name |-> g.label,
       option_value |-> NoValue, display_order |-> ord]>>
    \o [i \in 1..ChildCount(v, g) |->
         [option_id |-> oid + i, service_id |-> sid, parent_option_id |-> oid + 1,
          option_type |-> EmittedTypes(v, g.kind).child,
          option_name |-> g.label \o <<ChildWord(v, g, i)>>,
          option_value |-> ChildValue(g, i), display_order |-> ord + i]]

\* parse_group_to_rows: the group row, then its child rows, each taking the
\* next option_id and the next display_order; an unknown kind writes nothing
WriteGroup(v, g, parent, sid, oid, ord) ==
  IF g.kind \notin WritableKinds(v) THEN <<>>
  ELSE
    <<[option_id |-> oid, service_id |-> sid, parent_option_id |-> parent,
       option_type |-> EmittedTypes(v, g.kind).group, option_name |-> g.label,
       option_value |-> NoValue, display_order |-> ord]>>
    \o [i \in 1..ChildCount(v, g) |->
         [option_id |-> oid + i, service_id |-> sid, parent_option_id |-> oid,
          option_type |-> EmittedTypes(v, g.kind).child,
          option_name |-> g.label \o <<ChildWord(v, g, i)>>,
          option_value |-> ChildValue(g, i), display_order |-> ord + i]]

Emission(g, parent, rows) ==
  IF rows = <<>> THEN <<>>
  ELSE <<[key |-> Key(g), sig |-> Signature(g), parent |-> parent,
          row |-> rows[1].option_id, size |-> Len(rows)]>>

\* the state the scan loops thread through: recorded signatures, batch, cursors
Cursor(sigs, rows, oid, ord, log) ==
  [sigs |-> sigs, rows |-> rows, oid |-> oid, ord |-> ord, log |-> log]

SetSig(sigs, g) ==
  [k \in (DOMAIN sigs) \cup {Key(g)} |-> IF k = Key(g) THEN Signature(g) ELSE sigs[k]]

\* baseline scan: every visible group records its signature under its key
RECURSIVE BaselineSigs(_, _)
BaselineSigs(groups, sigs) ==
  IF groups = <<>> THEN sigs
  ELSE BaselineSigs(Tail(groups), SetSig(sigs, Head(groups)))

\* baseline write: every group is written as a top-level group
RECURSIVE WriteBaseline(_, _, _)
WriteBaseline(v, groups, st) ==
  IF groups = <<>> THEN st
  ELSE LET g  == Head(groups)
           rs == WriteGroup(v, g, NoParent, ServiceId, st.oid, st.ord)
       IN  WriteBaseline(v, Tail(groups),
             Cursor(st.sigs, st.rows \o rs, st.oid + Len(rs), st.ord + Len(rs),
                    st.log \o Emission(g, NoParent, rs)))

\* rescan after a click: skip the trigger group and every group whose
\* signature equals the recorded one; record and write the others under the
\* clicked choice's row
RECURSIVE DiffGroups(_, _, _, _)
DiffGroups(v, groups, parentRow, st) ==
  IF groups = <<>> THEN st
  ELSE LET g == Head(groups)
       IN  IF IsDifficulty(g) THEN DiffGroups(v, Tail(groups), parentRow, st)
           ELSE IF Key(g) \in DOMAIN st.sigs /\ st.sigs[Key(g)] = Signature(g)
           THEN DiffGroups(v, Tail(groups), parentRow, st)
           ELSE LET rs == WriteGroup(v, g, parentRow, ServiceId, st.oid, st.ord)
                IN  DiffGroups(v, Tail(groups), parentRow,
                      Cursor(SetSig(st.sigs, g), st.rows \o rs, st.oid + Len(rs),
                             st.ord + Len(rs), st.log \o Emission(g, parentRow, rs)))

\* option_name.startswith('difficulty_')
StartsWithDifficulty(name) == Len(name) >= 2 /\ name[1] = "difficulty"

\* radio value -> option_id of the radio choice row written for it (the last
\* such row wins); the fixed scraper does not ask for a parent
ChoiceRowIds(v, rows) ==
  LET hit(r) == /\ r.option_type = <<"radio">>
                /\ r.service_id = ServiceId
                /\ StartsWithDifficulty(r.option_name)
                /\ (v = "db" => r.parent_option_id # NoParent)
      idx == {i \in 1..Len(rows) : hit(rows[i])}
      vals == {rows[i].option_value : i \in idx}
  IN  [x \in vals |-> rows[Max({i \in idx : rows[i].option_value = x})].option_id]

DifficultyIndexAnyRadio(groups) ==
  LET S == {i \in 1..Len(groups) : groups[i].kind = "radio"}
  IN  IF S = {} THEN 0 ELSE CHOOSE i \in S : \A j \in S : i <= j

\* the first baseline group that is the Difficulty radio group, 0 if none
DifficultyIndex(groups) ==
  LET S == {i \in 1..Len(groups) : IsDifficulty(groups[i])}
  IN  IF S = {} THEN 0 ELSE CHOOSE i \in S : \A j \in S : i <= j

RadioInputsReversed(g) ==
  LET all == g.items \o g.hidden
  IN  [i \in 1..Len(all) |-> all[Len(all) + 1 - i]]

\* the values of all radio inputs of the trigger group, visible or not
RadioInputs(g) == g.items \o g.hidden

\* ----------------------------------------------------------- the pages
NumValues == 2      \* choices of the trigger group of the arbitrary page

ValueNames == <<"easy", "normal", "hard", "nightmare", "solo">>

TriggerGroup(hidden) ==
  Group("radio", DifficultyLabel, SubSeq(ValueNames, 1, NumValues), <<>>, 0, hidden)

\* a second radio group whose label begins with the trigger's label and whose
\* choice has the value of the trigger's first choice
DifficultyMode ==
  Group("radio", <<"difficulty", "mode">>, SubSeq(ValueNames, 1, 1), <<>>, 0, <<>>)

\* the other groups an arbitrary page can show, in DOM order; the two
\* checkbox groups have no header and so share the key (checkbox, Checkboxes)
Pool ==
  <<Group("checkbox", <<"checkboxes">>, <<"a">>, <<>>, 0, <<>>),
    Group("checkbox", <<"checkboxes">>, <<"b">>, <<>>, 0, <<>>),
    Group("slider", <<"slider">>, <<"5">>, <<"1", "9">>, 0, <<>>),
    Group("unknown", <<"option">>, <<"x">>, <<>>, 0, <<>>)>>

RECURSIVE Pick(_, _)
Pick(S, i) ==
  IF i > Len(Pool) THEN <<>>
  ELSE (IF i \in S THEN <<Pool[i]>> ELSE <<>>) \o Pick(S, i + 1)

\* the lists of groups a scan of the arbitrary page can see: the trigger (if
\* the page has one) followed by any of the pool's groups
PageLists(trigger) == {trigger \o Pick(S, 1) : S \in SUBSET (1..Len(Pool))}

\* the end-to-end scenario page: a range group, the Difficulty radio group
\* and, while Hard is selected, the Hardcore Extras checkbox group
ScenarioRange(nlabels) ==
  Group("range", <<"level">>, <<"1", "10">>, <<"1", "60">>, nlabels, <<>>)

ScenarioDifficulty(order) == Group("radio", DifficultyLabel, order, <<>>, 0, <<>>)

ScenarioExtras(n) ==
  Group("checkbox", <<"hardcore", "extras">>, SubSeq(<<"x1", "x2", "x3">>, 1, n), <<>>, 0, <<>>)

ClickOrders ==
  {<<"easy", "normal", "hard">>, <<"easy", "hard", "normal">>,
   <<"normal", "easy", "hard">>, <<"normal", "hard", "easy">>,
   <<"hard", "easy", "normal">>, <<"hard", "normal", "easy">>}

\* the radio groups of the page, which every scan sees
RadioGroups(groups) == SelectSeq(groups, LAMBDA g : g.kind = "radio")

\* what a scan of the page sees once val is selected
PageAfter(val) ==
  IF scenario
  THEN {IF val = "hard" THEN page0 \o reveal ELSE page0}
  ELSE PageLists(RadioGroups(page0))

ExtractIdle ==
  /\ xpc = "idle" /\ variant = "db" /\ scenario = FALSE /\ page0 = <<>>
  /\ baseline_sigs = <<>> /\ rows_out = <<>> /\ option_id = 1 /\ display_order = 1
  /\ radio_values = <<>> /\ vi = 1 /\ radio_value_parent_row_ids = <<>>
  /\ reveal = <<>> /\ scans = <<>> /\ emitted = <<>>

ExtractStart ==
  /\ xpc = "start"
  /\ baseline_sigs = <<>> /\ rows_out = <<>> /\ option_id = 1 /\ display_order = 1
  /\ radio_values = <<>> /\ vi = 1 /\ radio_value_parent_row_ids = <<>>
  /\ scans = <<>> /\ emitted = <<>>

\* an arbitrary page, scraped by scrapper_db.py
InitExtract ==
  /\ ExtractStart
  /\ variant = "db"
  /\ scenario = FALSE
  /\ reveal = <<>>
  /\ \E hidden \in {<<>>, <<"ghost">>} :
       page0 \in PageLists(<<>>) \cup PageLists(<<DifficultyMode>>)
                  \cup PageLists(<<TriggerGroup(hidden)>>)
                  \cup PageLists(<<TriggerGroup(hidden), DifficultyMode>>)

\* the scenario page, scraped by either scraper
InitScenario ==
  /\ ExtractStart
  /\ variant \in {"db", "fixed"}
  /\ scenario = TRUE
  /\ \E n \in 1..3 : reveal = <<ScenarioExtras(n)>>
  /\ \E nlabels \in 0..2, order \in ClickOrders, first \in BOOLEAN :
       page0 = IF first
               THEN <<ScenarioRange(nlabels), ScenarioDifficulty(order)>>
               ELSE <<ScenarioDifficulty(order), ScenarioRange(nlabels)>>

\* the container is present: baseline scan and write; without a Difficulty
\* radio group the batch is done
Baseline ==
  /\ xpc = "start" /\ container
  /\ LET st == WriteBaseline(variant, page0,
                 Cursor(BaselineSigs(page0, <<>>), <<>>, option_id, display_order, <<>>))
         d  == DifficultyIndex(page0)
     IN  /\ baseline_sigs' = st.sigs
         /\ rows_out' = st.rows
         /\ option_id' = st.oid
         /\ display_order' = st.ord
         /\ emitted' = st.log
         /\ IF d = 0
            THEN /\ xpc' = "done"
                 /\ UNCHANGED <<radio_values, radio_value_parent_row_ids>>
            ELSE /\ xpc' = "loop"
                 /\ radio_value_parent_row_ids' = ChoiceRowIds(variant, st.rows)
                 /\ radio_values' = RadioInputs(page0[d])
  /\ UNCHANGED <<variant, scenario, page0, vi, reveal, scans, nvars, wvars, ivars, pvars, gvars, mvars, tvars>>

\* no choice row was written for this value: continue
SkipValue ==
  /\ xpc = "loop" /\ vi <= Len(radio_values)
  /\ radio_values[vi] \notin DOMAIN radio_value_parent_row_ids
  /\ vi' = vi + 1
  /\ UNCHANGED <<xpc, variant, scenario, page0, baseline_sigs, rows_out, option_id,
                 display_order, radio_values, radio_value_parent_row_ids, reveal,
                 scans, emitted, nvars, wvars, ivars, pvars, gvars, mvars, tvars>>

ClickFailsBreak ==
  /\ xpc = "loop" /\ vi <= Len(radio_values)
  /\ radio_values[vi] \in DOMAIN radio_value_parent_row_ids
  /\ vi' = vi + 1
  /\ xpc' = "done"
  /\ UNCHANGED <<variant, scenario, page0, baseline_sigs, rows_out, option_id,
                 display_order, radio_values, radio_value_parent_row_ids, reveal,
                 scans, emitted, nvars, wvars, ivars, pvars, gvars, mvars, tvars>>

\* the input is not found or the click raises: continue
ClickFails ==
  /\ xpc = "loop" /\ vi <= Len(radio_values)
  /\ radio_values[vi] \in DOMAIN radio_value_parent_row_ids
  /\ vi' = vi + 1
  /\ UNCHANGED <<xpc, variant, scenario, page0, baseline_sigs, rows_out, option_id,
                 display_order, radio_values, radio_value_parent_row_ids, reveal,
                 scans, emitted, nvars, wvars, ivars, pvars, gvars, mvars, tvars>>

\* click, wait, rescan, diff
ClickAndDiff ==
  /\ xpc = "loop" /\ vi <= Len(radio_values)
  /\ radio_values[vi] \in DOMAIN radio_value_parent_row_ids
  /\ \E cur \in PageAfter(radio_values[vi]) :
       LET st == DiffGroups(variant, cur, radio_value_parent_row_ids[radio_values[vi]],
                   Cursor(baseline_sigs, rows_out, option_id, display_order, emitted))
       IN  /\ baseline_sigs' = st.sigs
           /\ rows_out' = st.rows
           /\ option_id' = st.oid
           /\ display_order' = st.ord
           /\ emitted' = st.log
           /\ scans' = Append(scans, cur)
  /\ vi' = vi + 1
  /\ UNCHANGED <<xpc, variant, scenario, page0, radio_values,
                 radio_value_parent_row_ids, reveal, nvars, wvars, ivars, pvars, gvars, mvars, tvars>>

\* every radio value was handled: return rows_out
FinishLoop ==
  /\ xpc = "loop" /\ vi > Len(radio_values)
  /\ xpc' = "done"
  /\ UNCHANGED <<variant, scenario, page0, baseline_sigs, rows_out, option_id,
                 display_order, radio_values, vi, radio_value_parent_row_ids, reveal,
                 scans, emitted, nvars, wvars, ivars, pvars, gvars, mvars, tvars>>

\* ------------------------------------------------------ the wait, step by step
\* The same loop with the iteration of one trigger value taken apart: click,
\* wait_dom_change polling the container until its hash differs from the one
\* taken before the click or the timeout is over, then rescan and diff.
MaxPolls == 3       \* polls that fit into the timeout (4.0 s, one poll per 0.15 s)

WaitIdle == polls = 0 /\ wait_result = "none" /\ clicks = <<>>

\* the scenario page with the wait observed
InitWait ==
  /\ ExtractStart
  /\ WaitIdle
  /\ variant \in {"db", "fixed"}
  /\ scenario = TRUE
  /\ reveal = <<ScenarioExtras(1)>>
  /\ \E nlabels \in 0..2, order \in ClickOrders :
       page0 = <<ScenarioRange(nlabels), ScenarioDifficulty(order)>>

\* prev_sig is taken, the input is found and clicked
Click ==
  /\ xpc = "loop" /\ vi <= Len(radio_values)
  /\ radio_values[vi] \in DOMAIN radio_value_parent_row_ids
  /\ xpc' = "waiting"
  /\ polls' = 0
  /\ wait_result' = "none"
  /\ clicks' = Append(clicks, vi)
  /\ UNCHANGED <<variant, scenario, page0, baseline_sigs, rows_out, option_id,
                 display_order, radio_values, vi, radio_value_parent_row_ids, reveal,
                 scans, emitted, nvars, wvars, ivars, pvars, gvars, mvars>>

\* a poll within the timeout reads a hash that differs: return cur_sig
PollChanged ==
  /\ xpc = "waiting" /\ polls < MaxPolls
  /\ polls' = polls + 1
  /\ wait_result' = "changed"
  /\ xpc' = "rescan"
  /\ UNCHANGED <<variant, scenario, page0, baseline_sigs, rows_out, option_id,
                 display_order, radio_values, vi, radio_value_parent_row_ids, reveal,
                 scans, emitted, clicks, nvars, wvars, ivars, pvars, gvars, mvars>>

\* a poll within the timeout reads the same hash, or the read raises and the
\* exception is swallowed: sleep and poll again
PollUnchanged ==
  /\ xpc = "waiting" /\ polls < MaxPolls
  /\ polls' = polls + 1
  /\ UNCHANGED <<xpc, wait_result, variant, scenario, page0, baseline_sigs, rows_out,
                 option_id, display_order, radio_values, vi, radio_value_parent_row_ids,
                 reveal, scans, emitted, clicks, nvars, wvars, ivars, pvars, gvars, mvars>>

WaitTimeoutRaises ==
  /\ xpc = "waiting" /\ polls >= MaxPolls
  /\ wait_result' = "timeout"
  /\ xpc' = "failed"
  /\ UNCHANGED <<polls, variant, scenario, page0, baseline_sigs, rows_out, option_id,
                 display_order, radio_values, vi, radio_value_parent_row_ids, reveal,
                 scans, emitted, clicks, nvars, wvars, ivars, pvars, gvars, mvars>>

\* the timeout is over: the while loop ends and prev_sig is returned
WaitTimeout ==
  /\ xpc = "waiting" /\ polls >= MaxPolls
  /\ wait_result' = "timeout"
  /\ xpc' = "rescan"
  /\ UNCHANGED <<polls, variant, scenario, page0, baseline_sigs, rows_out, option_id,
                 display_order, radio_values, vi, radio_value_parent_row_ids, reveal,
                 scans, emitted, clicks, nvars, wvars, ivars, pvars, gvars, mvars>>

\* rescan and diff, whatever wait_dom_change returned
Rescan ==
  /\ xpc = "rescan"
  /\ \E cur \in PageAfter(radio_values[vi]) :
       LET st == DiffGroups(variant, cur, radio_value_parent_row_ids[radio_values[vi]],
                   Cursor(baseline_sigs, rows_out, option_id, display_order, emitted))
       IN  /\ baseline_sigs' = st.sigs
           /\ rows_out' = st.rows
           /\ option_id' = st.oid
           /\ display_order' = st.ord
           /\ emitted' = st.log
           /\ scans' = Append(scans, cur)
  /\ vi' = vi + 1
  /\ xpc' = "loop"
  /\ UNCHANGED <<variant, scenario, page0, radio_values, radio_value_parent_row_ids,
                 reveal, nvars, wvars, ivars, pvars, gvars, mvars, tvars>>

\* =========================================================================
\* Hierarchical importer: import_csv_to_database (complete_code.py)
\* =========================================================================
FORCE_GAME_ID == 21
REUSE_EXISTING_SERVICE_BY_NAME == TRUE

MaxSvc == 2       \* rows of the services file
MaxOpts == 3      \* rows of the options file
MaxRuns == 2      \* runs of the import over the same files

ServiceNames == {"a", "b"}

\* lexicographic order on tuples of integers of one length
RECURSIVE TupleLess(_, _)
TupleLess(a, b) ==
  IF a = <<>> THEN FALSE
  ELSE Head(a) < Head(b) \/ (Head(a) = Head(b) /\ TupleLess(Tail(a), Tail(b)))

\* is_parent_row: the parent_option_id cell is empty
is_parent_row(orow) == orow.parent_option_id = NoParent

SortKeyDescending(r, mode) ==
  IF mode = "parents" THEN <<0 - r.display_order, r.option_id>>
  ELSE <<r.parent_option_id, 0 - r.display_order, r.option_id>>

\* the sort columns: parents by (display_order, option_id), children by
\* (parent_option_id, display_order, option_id)
SortKey(r, mode) ==
  IF mode = "parents" THEN <<r.display_order, r.option_id>>
  ELSE <<r.parent_option_id, r.display_order, r.option_id>>

\* sort_values(..., kind="stable")
RECURSIVE SortRows(_, _)
SortRows(rows, mode) ==
  IF rows = <<>> THEN <<>>
  ELSE LET x == rows[Len(rows)]
           s == SortRows(SubSeq(rows, 1, Len(rows) - 1), mode)
           n == Cardinality({i \in 1..Len(s) : ~TupleLess(SortKey(x, mode), SortKey(s[i], mode))})
       IN  SubSeq(s, 1, n) \o <<x>> \o SubSeq(s, n + 1, Len(s))

\* df_options_all[df_options_all["service_id"] == csv_sid]
OptionsOfService(file, sid) == SelectSeq(file, LAMBDA r : r.service_id = sid)

SelectServiceAnyName(store, name) ==
  LET S == {s \in store : s.game_id = FORCE_GAME_ID}
  IN  IF S = {} THEN 0 ELSE (CHOOSE s \in S : \A t \in S : s.id <= t.id).id

\* SELECT service_id FROM services WHERE game_id = %s AND name = %s LIMIT 1
SelectService(store, name) ==
  LET S == {s \in store : s.game_id = FORCE_GAME_ID /\ s.name = name}
  IN  IF S = {} THEN 0 ELSE (CHOOSE s \in S : \A t \in S : s.id <= t.id).id

\* the rows visible once the open transaction is rolled back
RollBackAsCommit(committed, pending) == committed \cup pending

RollBack(committed, pending) == committed

IdMapForgetChild(m, oid, newid) == m

\* id_map[str(row["option_id"])] = new_id
IdMapPut(m, oid, newid) ==
  [x \in (DOMAIN m) \cup {oid} |-> IF x = oid THEN newid ELSE m[x]]

IdMapGetRaw(m, oid) == IF oid \in DOMAIN m THEN m[oid] ELSE oid

\* id_map.get(csv_parent), None when missing
IdMapGet(m, oid) == IF oid \in DOMAIN m THEN m[oid] ELSE NoParent

\* the stored form of a row without the history fields
Stored(rows) == {[f \in (DOMAIN r) \ {"txn"} |-> r[f]] : r \in rows}

\* ------------------------------------------------------------ the files
\* display_order restarts at 1 in every service's batch
FileRow(i, sids, pars) ==
  [option_id |-> i, service_id |-> sids[i], parent_option_id |-> pars[i],
   display_order |-> Cardinality({j \in 1..i : sids[j] = sids[i]})]

\* the options files of n rows for m services: option ids 1..n, each
\* service's rows together, a parent cell empty (0), another row of the same
\* service or an id that no row of the service has (n + 1)
ParentCells(n, sids) ==
  {p \in [1..n -> 0..(n + 1)] :
     \A i \in 1..n : p[i] # i /\ (p[i] \in 1..n => sids[p[i]] = sids[i])}

OptionFiles(n, m) ==
  UNION {{[i \in 1..n |-> FileRow(i, sids, pars)] : pars \in ParentCells(n, sids)} :
           sids \in {s \in [1..n -> 1..m] : \A i \in 1..(n - 1) : s[i] <= s[i + 1]}}

\* the services files of n rows: service ids 1..n; only the equality of
\* names matters, so the first service is the one named "a"
ServiceFiles(n) ==
  {[i \in 1..n |-> [service_id |-> i, name |-> names[i]]] :
     names \in {f \in [1..n -> ServiceNames] : f[1] = "a"}}

ImportIdle ==
  /\ ipc = "off" /\ svc_file = <<>> /\ opt_file = <<>>
  /\ db_services = {} /\ db_options = {} /\ tx_services = {} /\ tx_options = {}
  /\ next_service_rowid = 1 /\ next_option_rowid = 1
  /\ run = 0 /\ sidx = 0 /\ db_service_id = 0
  /\ parents = <<>> /\ children = <<>> /\ pi = 1 /\ ci = 1 /\ id_map = <<>>
  /\ before_run = <<{}, {}>> /\ committed_in_run = {} /\ discarded = {}
  /\ cnx = "none" /\ raised = <<>>

InitImport ==
  /\ ipc = "idle"
  /\ \E m \in 1..MaxSvc, n \in 0..MaxOpts :
       /\ svc_file \in ServiceFiles(m)
       /\ opt_file \in OptionFiles(n, m)
  /\ db_services = {} /\ db_options = {} /\ tx_services = {} /\ tx_options = {}
  /\ next_service_rowid = 1 /\ next_option_rowid = 1
  /\ run = 0 /\ sidx = 0 /\ db_service_id = 0
  /\ parents = <<>> /\ children = <<>> /\ pi = 1 /\ ci = 1 /\ id_map = <<>>
  /\ before_run = <<{}, {}>> /\ committed_in_run = {} /\ discarded = {}
  /\ cnx = "none" /\ raised = <<>>

\* options files in which every service's batch numbers its rows from 1, so
\* the same option_id occurs under several services; a parent cell is empty
\* or any other id of the file, of the same service or not
RepeatedIdRow(i, sids, pars) ==
  [option_id |-> Cardinality({j \in 1..i : sids[j] = sids[i]}),
   service_id |-> sids[i], parent_option_id |-> pars[i],
   display_order |-> Cardinality({j \in 1..i : sids[j] = sids[i]})]

RepeatedIdFiles(n, m) ==
  UNION {{[i \in 1..n |-> RepeatedIdRow(i, sids, pars)] :
            pars \in {p \in [1..n -> 0..n] :
                        \A i \in 1..n : p[i] # Cardinality({j \in 1..i : sids[j] = sids[i]})}} :
           sids \in {f \in [1..n -> 1..m] : \A i \in 1..(n - 1) : f[i] <= f[i + 1]}}

InitRepeatedIds ==
  /\ ipc = "idle"
  /\ \E m \in 2..MaxSvc, n \in 2..MaxOpts :
       /\ svc_file \in ServiceFiles(m)
       /\ opt_file \in RepeatedIdFiles(n, m)
  /\ db_services = {} /\ db_options = {} /\ tx_services = {} /\ tx_options = {}
  /\ next_service_rowid = 1 /\ next_option_rowid = 1
  /\ run = 0 /\ sidx = 0 /\ db_service_id = 0
  /\ parents = <<>> /\ children = <<>> /\ pi = 1 /\ ci = 1 /\ id_map = <<>>
  /\ before_run = <<{}, {}>> /\ committed_in_run = {} /\ discarded = {}
  /\ cnx = "none" /\ raised = <<>>

\* import_csv_to_database is called: read the files, connect
StartImport ==
  /\ ipc \in {"idle", "done"} /\ run < MaxRuns
  /\ run' = run + 1
  /\ sidx' = 1
  /\ ipc' = "begin"
  /\ cnx' = "open"
  /\ before_run' = <<Stored(db_services), Stored(db_options)>>
  /\ committed_in_run' = {}
  /\ UNCHANGED <<svc_file, opt_file, db_services, db_options, tx_services, tx_options,
                 next_service_rowid, next_option_rowid, db_service_id, parents,
                 children, pi, ci, id_map, discarded, raised, nvars, wvars, xvars, pvars, gvars, mvars, tvars>>

BeginServiceKeepsIdMap ==
  /\ ipc = "begin"
  /\ LET srow == svc_file[sidx]
         existing == IF REUSE_EXISTING_SERVICE_BY_NAME /\ srow.name # ""
                     THEN SelectService(db_services \cup tx_services, srow.name) ELSE 0
         raw == OptionsOfService(opt_file, srow.service_id)
     IN  /\ IF existing # 0
            THEN /\ db_service_id' = existing
                 /\ UNCHANGED <<tx_services, next_service_rowid>>
            ELSE /\ db_service_id' = next_service_rowid
                 /\ tx_services' = tx_services \cup
                      {[id |-> next_service_rowid, game_id |-> FORCE_GAME_ID,
                        name |-> srow.name, txn |-> <<run, sidx>>]}
                 /\ next_service_rowid' = next_service_rowid + 1
         /\ parents' = SortRows(SelectSeq(raw, is_parent_row), "parents")
         /\ children' = SortRows(SelectSeq(raw, LAMBDA r : ~is_parent_row(r)), "children")
  /\ pi' = 1 /\ ci' = 1 /\ id_map' = id_map
  /\ ipc' = "inserting"
  /\ UNCHANGED <<svc_file, opt_file, db_services, db_options, tx_options,
                 next_option_rowid, run, sidx, before_run, committed_in_run, discarded, cnx, raised,
                 nvars, wvars, xvars, pvars, gvars, mvars, tvars>>

\* start_transaction; insert_service; select, split and sort the option rows
BeginService ==
  /\ ipc = "begin"
  /\ LET srow == svc_file[sidx]
         existing == IF REUSE_EXISTING_SERVICE_BY_NAME /\ srow.name # ""
                     THEN SelectService(db_services \cup tx_services, srow.name) ELSE 0
         raw == OptionsOfService(opt_file, srow.service_id)
     IN  /\ IF existing # 0
            THEN /\ db_service_id' = existing
                 /\ UNCHANGED <<tx_services, next_service_rowid>>
            ELSE /\ db_service_id' = next_service_rowid
                 /\ tx_services' = tx_services \cup
                      {[id |-> next_service_rowid, game_id |-> FORCE_GAME_ID,
                        name |-> srow.name, txn |-> <<run, sidx>>]}
                 /\ next_service_rowid' = next_service_rowid + 1
         /\ parents' = SortRows(SelectSeq(raw, is_parent_row), "parents")
         /\ children' = SortRows(SelectSeq(raw, LAMBDA r : ~is_parent_row(r)), "children")
  /\ pi' = 1 /\ ci' = 1 /\ id_map' = <<>>
  /\ ipc' = "inserting"
  /\ UNCHANGED <<svc_file, opt_file, db_services, db_options, tx_options,
                 next_option_rowid, run, sidx, before_run, committed_in_run, discarded, cnx, raised,
                 nvars, wvars, xvars, pvars, gvars, mvars, tvars>>

\* insert_one_option: the INSERT and cur.lastrowid
OptionRow(orow, parent_db_id) ==
  [id |-> next_option_rowid, service_id |-> db_service_id, parent_option_id |-> parent_db_id,
   display_order |-> orow.display_order, csv_option_id |-> orow.option_id,
   txn |-> <<run, sidx>>]

\* one turn of "for _, prow in parents.iterrows()"
InsertParent ==
  /\ ipc = "inserting" /\ pi <= Len(parents)
  /\ tx_options' = tx_options \cup {OptionRow(parents[pi], NoParent)}
  /\ id_map' = IdMapPut(id_map, parents[pi].option_id, next_option_rowid)
  /\ next_option_rowid' = next_option_rowid + 1
  /\ pi' = pi + 1
  /\ UNCHANGED <<ipc, svc_file, opt_file, db_services, db_options, tx_services,
                 next_service_rowid, run, sidx, db_service_id, parents, children, ci,
                 before_run, committed_in_run, discarded, cnx, raised, nvars, wvars, xvars, pvars, gvars, mvars, tvars>>

\* one turn of "for _, crow in children.iterrows()"
InsertChild ==
  /\ ipc = "inserting" /\ pi > Len(parents) /\ ci <= Len(children)
  /\ tx_options' = tx_options \cup
       {OptionRow(children[ci], IdMapGet(id_map, children[ci].parent_option_id))}
  /\ id_map' = IdMapPut(id_map, children[ci].option_id, next_option_rowid)
  /\ next_option_rowid' = next_option_rowid + 1
  /\ ci' = ci + 1
  /\ UNCHANGED <<ipc, svc_file, opt_file, db_services, db_options, tx_services,
                 next_service_rowid, run, sidx, db_service_id, parents, children, pi,
                 before_run, committed_in_run, discarded, cnx, raised, nvars, wvars, xvars, pvars, gvars, mvars, tvars>>

\* cnx.commit(); then the next service row, or the end of the run (finally:
\* cur.close(), cnx.close())
Commit ==
  /\ ipc = "inserting" /\ pi > Len(parents) /\ ci > Len(children)
  /\ db_services' = db_services \cup tx_services
  /\ db_options' = db_options \cup tx_options
  /\ committed_in_run' = committed_in_run \cup tx_services \cup tx_options
  /\ tx_services' = {} /\ tx_options' = {}
  /\ IF sidx < Len(svc_file)
     THEN /\ sidx' = sidx + 1 /\ ipc' = "begin" /\ cnx' = cnx
     ELSE /\ sidx' = sidx /\ ipc' = "done" /\ cnx' = "closed"
  /\ UNCHANGED <<svc_file, opt_file, next_service_rowid, next_option_rowid, run,
                 db_service_id, parents, children, pi, ci, id_map, before_run,
                 discarded, raised, nvars, wvars, xvars, pvars, gvars, mvars, tvars>>

InsertRaisesSkipsService ==
  /\ \/ ipc = "begin"
     \/ ipc = "inserting" /\ (pi <= Len(parents) \/ ci <= Len(children))
  /\ db_services' = RollBack(db_services, tx_services)
  /\ db_options' = RollBack(db_options, tx_options)
  /\ discarded' = tx_services \cup tx_options
  /\ tx_services' = {} /\ tx_options' = {}
  /\ raised' = <<run, sidx>>
  /\ IF sidx < Len(svc_file)
     THEN /\ sidx' = sidx + 1 /\ ipc' = "begin" /\ cnx' = cnx
     ELSE /\ sidx' = sidx /\ ipc' = "done" /\ cnx' = "closed"
  /\ UNCHANGED <<svc_file, opt_file, next_service_rowid, next_option_rowid, run,
                 db_service_id, parents, children, pi, ci, id_map, before_run,
                 committed_in_run, nvars, wvars, xvars, pvars, gvars, mvars, tvars>>

\* an execute of the current service raises: except -> cnx.rollback(), raise;
\* finally -> cur.close(), cnx.close() (the row whose insert raised is not
\* stored, the loop over the services is left)
InsertRaises ==
  /\ \/ ipc = "begin"
     \/ ipc = "inserting" /\ (pi <= Len(parents) \/ ci <= Len(children))
  /\ db_services' = RollBack(db_services, tx_services)
  /\ db_options' = RollBack(db_options, tx_options)
  /\ discarded' = tx_services \cup tx_options
  /\ tx_services' = {} /\ tx_options' = {}
  /\ raised' = <<run, sidx>>
  /\ cnx' = "closed"
  /\ ipc' = "failed"
  /\ UNCHANGED <<svc_file, opt_file, next_service_rowid, next_option_rowid, run, sidx,
                 db_service_id, parents, children, pi, ci, id_map, before_run,
                 committed_in_run, nvars, wvars, xvars, pvars, gvars, mvars, tvars>>

\* =========================================================================
\* The scrape loop: one product page after the other is scraped into the
\* services and options files, then the files are imported
\* =========================================================================
MaxProducts == 2    \* product pages of the listing

\* get_next_service_id: 1 + the largest service_id of the services file
get_next_service_id(file) == Max({file[i].service_id : i \in 1..Len(file)}) + 1

get_next_option_id_fresh(file) == 1

\* get_next_option_id: 1 + the largest option_id of the options file
get_next_option_id(file) == Max({file[i].option_id : i \in 1..Len(file)}) + 1

\* append_options: the batch as rows of the options file, written for the
\* service_id the extraction was called with, option types normalized
append_options(file, rows, sid) ==
  file \o [i \in 1..Len(rows) |->
            [rows[i] EXCEPT !.service_id = sid,
                            !.option_type = normalize_option_type(rows[i].option_type)]]

\* the product pages of the listing: one without a trigger group, one whose
\* Hard choice reveals the extras group
ProductPages ==
  {<<ScenarioRange(2)>>,
   <<ScenarioDifficulty(<<"hard", "easy">>), ScenarioRange(1)>>,
   <<ScenarioRange(0), ScenarioDifficulty(<<"easy", "hard">>)>>}

Result(sid, ok, n, c) == [service_id |-> sid, ok |-> ok, options |-> n, container |-> c]

PipelineIdle ==
  /\ ppc = "off" /\ product = 0 /\ container = TRUE /\ scrape_service_id = 0
  /\ main_service_id = 1 /\ successful_scrapes = 0 /\ results = <<>>

\* the files are empty (reset_csv_files / a first run), nothing is scraped yet
InitPipeline ==
  /\ ppc = "ready" /\ product = 0 /\ container = TRUE /\ scrape_service_id = 0
  /\ main_service_id = 1 /\ successful_scrapes = 0 /\ results = <<>>
  /\ xpc = "idle" /\ variant \in {"db", "fixed"} /\ scenario = TRUE /\ page0 = <<>>
  /\ baseline_sigs = <<>> /\ rows_out = <<>> /\ option_id = 1 /\ display_order = 1
  /\ radio_values = <<>> /\ vi = 1 /\ radio_value_parent_row_ids = <<>>
  /\ reveal = <<ScenarioExtras(1)>> /\ scans = <<>> /\ emitted = <<>>
  /\ ImportIdle

\* load the next product page, write its service row, enter the extraction
StartScrape ==
  /\ ppc = "ready" /\ product < MaxProducts
  /\ product' = product + 1
  /\ \E name \in ServiceNames, c \in BOOLEAN, page \in ProductPages :
       LET sid == IF variant = "db" THEN get_next_service_id(svc_file)
                  ELSE main_service_id
       IN  /\ scrape_service_id' = sid
           /\ svc_file' = Append(svc_file, [service_id |-> sid, name |-> name])
           /\ container' = c
           /\ page0' = page
  /\ option_id' = get_next_option_id(opt_file)
  /\ display_order' = 1
  /\ baseline_sigs' = <<>> /\ rows_out' = <<>> /\ radio_values' = <<>> /\ vi' = 1
  /\ radio_value_parent_row_ids' = <<>> /\ scans' = <<>> /\ emitted' = <<>>
  /\ xpc' = "start"
  /\ ppc' = "scraping"
  /\ UNCHANGED <<variant, scenario, reveal, main_service_id, successful_scrapes, results,
                 ipc, opt_file, db_services, db_options, tx_services, tx_options,
                 next_service_rowid, next_option_rowid, run, sidx, db_service_id, parents,
                 children, pi, ci, id_map, before_run, committed_in_run, discarded, cnx, raised,
                 nvars, wvars, gvars, mvars, tvars>>

\* the wait for the options container times out: complete_code.py catches it
\* and returns the empty batch, scrapper_db.py lets it propagate to the
\* except of extract_service_info_and_options_dynamic
NoContainer ==
  /\ ppc = "scraping" /\ xpc = "start" /\ ~container
  /\ IF variant = "fixed"
     THEN /\ xpc' = "done"
          /\ UNCHANGED <<ppc, results>>
     ELSE /\ xpc' = "idle"
          /\ ppc' = "ready"
          /\ results' = Append(results, Result(scrape_service_id, FALSE, 0, container))
  /\ UNCHANGED <<product, container, scrape_service_id, main_service_id,
                 successful_scrapes, variant, scenario, page0, baseline_sigs, rows_out,
                 option_id, display_order, radio_values, vi, radio_value_parent_row_ids,
                 reveal, scans, emitted, nvars, wvars, ivars, gvars, mvars, tvars>>

\* any other exception of the scrape: the batch is dropped, the service row
\* stays in the services file
ScrapeRaises ==
  /\ ppc = "scraping" /\ xpc = "start" /\ container
  /\ xpc' = "idle"
  /\ ppc' = "ready"
  /\ results' = Append(results, Result(scrape_service_id, FALSE, 0, container))
  /\ UNCHANGED <<product, container, scrape_service_id, main_service_id,
                 successful_scrapes, variant, scenario, page0, baseline_sigs, rows_out,
                 option_id, display_order, radio_values, vi, radio_value_parent_row_ids,
                 reveal, scans, emitted, nvars, wvars, ivars, gvars, mvars, tvars>>

\* normalize_option_types_in_rows, append_options, return the service
AppendOptions ==
  /\ ppc = "scraping" /\ xpc = "done"
  /\ opt_file' = append_options(opt_file, rows_out, scrape_service_id)
  /\ results' = Append(results, Result(scrape_service_id, TRUE, Len(rows_out), container))
  /\ successful_scrapes' = successful_scrapes + 1
  /\ main_service_id' = main_service_id + 1
  /\ xpc' = "idle"
  /\ ppc' = "ready"
  /\ UNCHANGED <<product, container, scrape_service_id, variant, scenario, page0,
                 baseline_sigs, rows_out, option_id, display_order, radio_values, vi,
                 radio_value_parent_row_ids, reveal, scans, emitted,
                 ipc, svc_file, db_services, db_options, tx_services, tx_options,
                 next_service_rowid, next_option_rowid, run, sidx, db_service_id, parents,
                 children, pi, ci, id_map, before_run, committed_in_run, discarded, cnx, raised,
                 nvars, wvars, gvars, mvars, tvars>>

\* complete_code.main, step 4: every product was tried and one succeeded
RunImport ==
  /\ ppc = "ready" /\ product = MaxProducts
  /\ variant = "fixed" /\ successful_scrapes > 0
  /\ ppc' = "import"
  /\ ipc' = "idle"
  /\ UNCHANGED <<product, container, scrape_service_id, main_service_id,
                 successful_scrapes, results, svc_file, opt_file, db_services, db_options,
                 tx_services, tx_options, next_service_rowid, next_option_rowid, run,
                 sidx, db_service_id, parents, children, pi, ci, id_map, before_run,
                 committed_in_run, discarded, cnx, raised, nvars, wvars, xvars, gvars, mvars, tvars>>

\* =========================================================================
\* Option classifier: group_kind_and_signature
\* =========================================================================
\* A group node as the DOM gives it:
\*   cluster       which cluster element it holds ("none": no known cluster)
\*   head          text of .product-option__label, <<>> when there is none,
\*                 as a sequence of characters
\*   choices       the visible choices: label text, value attribute, price text
\*   input_labels  the labels above the inputs of a range cluster
\*   knobs         number of knobs of a range cluster
\*   scale         the texts of the scale items
\*   inputs        the value attributes of the inputs
\*   markup        the attributes of the root element that carry no content
MaxChoices == 2     \* choices of a group node

Node(cluster, head, choices, input_labels, knobs, scale, inputs, markup) ==
  [cluster |-> cluster, head |-> head, choices |-> choices,
   input_labels |-> input_labels, knobs |-> knobs, scale |-> scale,
   inputs |-> inputs, markup |-> markup]

Choice(label, value, price) == [label |-> label, value |-> value, price |-> price]

\* str.lower on the characters of the labels
Lower(c) == IF c = "D" THEN "d" ELSE c

\* label.lower().replace(":", "").strip()
Slug(label) ==
  LET low == [i \in 1..Len(label) |-> Lower(label[i])]
  IN  SelectSeq(low, LAMBDA c : c # ":")

\* the label a cluster without head label falls back to (scrapper_db.py)
DefaultLabel(kind) ==
  CASE kind = "range" -> <<"Range">>
    [] kind = "slider" -> <<"Slider">>
    [] kind = "radio" -> <<"Radios">>
    [] kind = "buttons" -> <<"Buttons">>
    [] kind = "checkbox" -> <<"Checkboxes">>
    [] kind = "select" -> <<"Dropdown">>
    [] OTHER -> <<"Option">>

\* knob_count >= 2 or input_count >= 2
detect_slider_kind(el) ==
  IF el.knobs >= 2 \/ Len(el.inputs) >= 2 THEN "range" ELSE "slider"

KindOf(el) ==
  CASE el.cluster = "range" -> detect_slider_kind(el)
    [] el.cluster = "radios" -> "radio"
    [] el.cluster = "buttons" -> "buttons"
    [] el.cluster = "checkboxes" -> "checkbox"
    [] el.cluster = "select" -> "select"
    [] OTHER -> "unknown"

\* the label returned, used as key
LabelForKey(v, el) ==
  IF v = "fixed" THEN (IF el.head # <<>> THEN el.head ELSE <<"Option">>)
  ELSE IF el.head # <<>> THEN el.head
  ELSE IF el.cluster = "range" /\ el.input_labels # <<>>
       THEN (IF KindOf(el) = "range" THEN el.input_labels ELSE <<el.input_labels[1]>>)
  ELSE DefaultLabel(KindOf(el))

HtmlPrefix == 3     \* outerHTML[:500], in tokens

\* outerHTML of the node: the root element's attributes come first
OuterHtml(el) == <<el.markup>> \o el.head \o <<el.cluster>>

Truncate(html, n) == SubSeq(html, 1, IF Len(html) < n THEN Len(html) ELSE n)

CanonicalStringRaw(v, el) ==
  <<KindOf(el), LabelForKey(v, el), el.choices, el.scale, el.inputs, el.markup>>

\* the string that is hashed; the joins are kept as tuples
CanonicalString(v, el) ==
  LET kind == KindOf(el)
      label == IF v = "fixed" THEN Slug(LabelForKey(v, el)) ELSE LabelForKey(v, el)
      triples == [i \in 1..Len(el.choices) |->
                    <<el.choices[i].label, el.choices[i].value, el.choices[i].price>>]
      texts == [i \in 1..Len(el.choices) |-> el.choices[i].label]
      scale_sig == IF el.scale = <<>> THEN <<>>
                   ELSE <<el.scale[1], el.scale[Len(el.scale)]>>
  IN  CASE kind \in {"range", "slider"} /\ v = "fixed" ->
             <<kind, label, el.scale, SelectSeq(el.inputs, LAMBDA x : x # "")>>
        [] kind = "range" /\ v = "db" ->
             <<kind, label, el.input_labels, scale_sig, el.inputs>>
        [] kind = "slider" /\ v = "db" ->
             <<kind, label, scale_sig, IF el.inputs = <<>> THEN "" ELSE el.inputs[1]>>
        [] kind \in {"radio", "checkbox"} -> <<kind, label, triples>>
        [] kind \in {"buttons", "select"} -> <<kind, label, texts>>
        [] OTHER -> <<kind, label, Truncate(OuterHtml(el), HtmlPrefix)>>

\* (kind, label, signature); sha256 is taken as injective
group_kind_and_signature(v, el) ==
  [kind |-> KindOf(el), label |-> LabelForKey(v, el), sig |-> CanonicalString(v, el)]

Heads == {<<>>, <<"D", "i">>, <<"d", "i", ":">>}

Choices == {Choice(l, x, p) : l \in {"solo", "duo"}, x \in {"1", "2"}, p \in {"", "+5"}}

ChoiceLists(n) == UNION {[1..k -> Choices] : k \in 1..n}

\* the group nodes of the first scan
GroupNodes(n) ==
  {Node("range", h, <<>>, il, k, sc, in, "m1") :
     h \in Heads, il \in {<<>>, <<"from", "to">>}, k \in 1..2,
     sc \in {<<>>, <<"1", "9">>, <<"1", "5", "9">>},
     in \in {<<"5">>, <<"5", "7">>, <<"">>}}
  \cup {Node(c, h, ch, <<>>, 0, <<>>, <<>>, "m1") :
          c \in {"radios", "buttons", "checkboxes", "select"}, h \in Heads,
          ch \in ChoiceLists(n)}
  \cup {Node("none", h, <<>>, <<>>, 0, <<>>, <<>>, "m1") : h \in Heads}

\* the same group scanned again with one thing different
Rescans(el) ==
  {<<"markup", [el EXCEPT !.markup = "m2"]>>}
  \cup {<<"label", [el EXCEPT !.choices[i].label = "trio"]>> : i \in 1..Len(el.choices)}
  \cup {<<"value", [el EXCEPT !.choices[i].value = "3"]>> : i \in 1..Len(el.choices)}
  \cup {<<"price", [el EXCEPT !.choices[i].price = "+9"]>> : i \in 1..Len(el.choices)}
  \cup {<<"bound", [el EXCEPT !.scale[i] = "0"]>> : i \in {1, Len(el.scale)} \ {0}}
  \cup {<<"input", [el EXCEPT !.inputs[i] = "6"]>> :
          i \in IF el.cluster = "range" THEN 1..Len(el.inputs) ELSE {}}

NoSig == [kind |-> "", label |-> <<>>, sig |-> <<>>]

ClassifierIdle ==
  /\ gpc = "off" /\ gvariant = "db" /\ group_el = <<>> /\ rescan_el = <<>>
  /\ changed = "" /\ first_sig = NoSig /\ second_sig = NoSig

InitClassifier ==
  /\ gpc = "input"
  /\ gvariant \in {"db", "fixed"}
  /\ group_el \in GroupNodes(MaxChoices)
  /\ rescan_el = <<>>
  /\ changed = "" /\ first_sig = NoSig /\ second_sig = NoSig

\* the baseline scan classifies the group
Classify ==
  /\ gpc = "input"
  /\ first_sig' = group_kind_and_signature(gvariant, group_el)
  /\ gpc' = "classified"
  /\ UNCHANGED <<gvariant, group_el, rescan_el, changed, second_sig,
                 nvars, wvars, xvars, ivars, pvars, mvars, tvars>>

\* a rescan classifies the group as it is then
ClassifyAgain ==
  /\ gpc = "classified"
  /\ \E r \in Rescans(group_el) :
       /\ changed' = r[1]
       /\ rescan_el' = r[2]
       /\ second_sig' = group_kind_and_signature(gvariant, r[2])
  /\ gpc' = "compared"
  /\ UNCHANGED <<gvariant, group_el, first_sig, nvars, wvars, xvars, ivars, pvars, mvars, tvars>>

\* =========================================================================
\* Price-modifier parsers: _parse_modifier (overgear_scraper_selenium.py),
\* parse_price_modifier (scrapper_db.py, option_scraper.py)
\* =========================================================================
MaxText == 4        \* characters of a generated price text

DigitSeq == <<"0", "1", "2", "3", "4", "5", "6", "7", "8", "9">>

Digits == Range(DigitSeq)

Count(s, c) == Cardinality({i \in 1..Len(s) : s[i] = c})

\* str.strip / str.lstrip
RECURSIVE LStrip(_, _)
LStrip(s, c) == IF s # <<>> /\ Head(s) = c THEN LStrip(Tail(s), c) ELSE s

RECURSIVE RStrip(_, _)
RStrip(s, c) ==
  IF s # <<>> /\ s[Len(s)] = c THEN RStrip(SubSeq(s, 1, Len(s) - 1), c) ELSE s

Strip(s) == RStrip(LStrip(s, " "), " ")

\* str.lower on the characters of the texts
LowerText(s) ==
  [i \in 1..Len(s) |-> CASE s[i] = "F" -> "f" [] s[i] = "B" -> "b" [] OTHER -> s[i]]

FreeWords == {<<"f", "r", "e", "e">>, <<"b", "a", "s", "i", "c">>}

\* str.replace(a, b) for single characters; b = "" removes
ReplaceChar(s, a, b) ==
  IF b = "" THEN SelectSeq(s, LAMBDA c : c # a)
  ELSE [i \in 1..Len(s) |-> IF s[i] = a THEN b ELSE s[i]]

\* re.sub(r"[^\d,.\-]", "", t)
KeepNumeric(s) == SelectSeq(s, LAMBDA c : c \in Digits \cup {",", ".", "-"})

\* the texts float() accepts: an optional sign, digits with at most one dot,
\* at least one digit
Unsigned(s) == IF s # <<>> /\ s[1] \in {"-", "+"} THEN Tail(s) ELSE s

IsFloat(s) ==
  /\ \A i \in 1..Len(Unsigned(s)) : Unsigned(s)[i] \in Digits \cup {"."}
  /\ Count(Unsigned(s), ".") <= 1
  /\ \E i \in 1..Len(Unsigned(s)) : Unsigned(s)[i] \in Digits

\* the number a text denotes: sign, integer digits without leading zeros,
\* fraction digits without trailing zeros
Number(neg, int, frac) == [neg |-> neg, int |-> int, frac |-> frac]

Float(s) ==
  LET u == Unsigned(s)
      dot == IF Count(u, ".") = 0 THEN Len(u) + 1 ELSE CHOOSE i \in 1..Len(u) : u[i] = "."
      int == LStrip(SubSeq(u, 1, dot - 1), "0")
      frac == RStrip(SubSeq(u, dot + 1, Len(u)), "0")
  IN  Number(s[1] = "-" /\ (int # <<>> \/ frac # <<>>), int, frac)

Zero == Number(FALSE, <<>>, <<>>)

DigitValue(c) == (CHOOSE i \in 1..10 : DigitSeq[i] = c) - 1

RECURSIVE ToInt(_)
ToInt(ds) ==
  IF ds = <<>> THEN 0 ELSE 10 * ToInt(SubSeq(ds, 1, Len(ds) - 1)) + DigitValue(ds[Len(ds)])

RECURSIVE ToDigits(_)
ToDigits(n) == IF n = 0 THEN <<>> ELSE Append(ToDigits(n \div 10), DigitSeq[(n % 10) + 1])

\* the number of h hundredths
Hundredths(neg, h) ==
  LET two == <<DigitSeq[((h \div 10) % 10) + 1], DigitSeq[(h % 10) + 1]>>
  IN  Number(neg /\ h # 0, ToDigits(h \div 100), RStrip(two, "0"))

\* f"{x:.2f}" read back by float(): x rounded to two decimals; a decimal tie
\* goes the way the binary value of x lies
TwoDecimals(x) ==
  IF Len(x.frac) <= 2 THEN {x}
  ELSE LET h == 100 * ToInt(x.int) + ToInt(SubSeq(x.frac, 1, 2))
           rest == SubSeq(x.frac, 3, Len(x.frac))
       IN  IF DigitValue(rest[1]) < 5 THEN {Hundredths(x.neg, h)}
           ELSE IF rest = <<"5">> THEN {Hundredths(x.neg, h), Hundredths(x.neg, h + 1)}
           ELSE {Hundredths(x.neg, h + 1)}

Null == [kind |-> "null", value |-> Zero]

Modifier(kind, value) == [kind |-> kind, value |-> value]

\* overgear_scraper_selenium.py
parse_modifier(raw) ==
  LET t == Strip(LStrip(Strip(raw), "+"))
      pct == ReplaceChar(Strip(SubSeq(t, 1, Len(t) - 1)), ",", ".")
      kept == KeepNumeric(t)
      num == IF Count(kept, ",") > 0 /\ Count(kept, ".") > 0 THEN ReplaceChar(kept, ",", "")
             ELSE IF Count(kept, ",") > 0 THEN ReplaceChar(kept, ",", ".")
             ELSE kept
  IN  IF raw = <<>> THEN Null
      ELSE IF t # <<>> /\ t[Len(t)] = "%"
           THEN (IF IsFloat(pct) THEN Modifier("percent", Float(pct)) ELSE Null)
      ELSE IF kept = <<>> THEN Null
      ELSE IF IsFloat(num) THEN Modifier("absolute", Float(num)) ELSE Null

\* scrapper_db.py: the amounts the text "%.2f" of the parsed number can read
\* back as, {} when the text is "" (nothing parsable)
parse_currency_to_decimal(txt) ==
  LET t == LowerText(Strip(txt))
      kept == KeepNumeric(t)
      num == IF Count(kept, ",") > 0 /\ Count(kept, ".") > 0 THEN ReplaceChar(kept, ",", "")
             ELSE IF Count(kept, ",") > 0 THEN ReplaceChar(kept, ",", ".")
             ELSE kept
  IN  IF txt = <<>> THEN {}
      ELSE IF t \in FreeWords THEN {Zero}
      ELSE IF IsFloat(num) THEN TwoDecimals(Float(num)) ELSE {}

\* scrapper_db.py: a bare number, 0.00 for every text without an amount
parse_price_modifier_db(text) ==
  IF text = <<>> \/ LowerText(text) \in FreeWords THEN {Modifier("number", Zero)}
  ELSE IF parse_currency_to_decimal(text) = {} THEN {Modifier("number", Zero)}
  ELSE {Modifier("number", x) : x \in parse_currency_to_decimal(text)}

\* option_scraper.py: every comma becomes a dot
parse_price_modifier_scraper(text) ==
  LET num == ReplaceChar(KeepNumeric(text), ",", ".")
  IN  IF text = <<>> \/ LowerText(text) \in FreeWords THEN Modifier("number", Zero)
      ELSE IF IsFloat(num) THEN Modifier("number", Float(num))
      ELSE Modifier("number", Zero)

Parsers == {"overgear_scraper_selenium", "scrapper_db", "option_scraper"}

\* what the call can return
Parse(p, text) ==
  CASE p = "overgear_scraper_selenium" -> {parse_modifier(text)}
    [] p = "scrapper_db" -> parse_price_modifier_db(text)
    [] OTHER -> {parse_price_modifier_scraper(text)}

\* the price texts of the documentation ("E" is the euro sign) and every
\* short text of the alphabet
ExampleTexts ==
  {<<>>, <<"F", "r", "e", "e">>, <<"+", "6", ",", "4", "3", " ", "E">>,
   <<"+", "5", "0", "%">>, <<"1", ",", "2", "3", "4", ".", "5", "6">>}

PriceTexts(n) ==
  ExampleTexts \cup UNION {[1..k -> {"5", "0", ",", ".", "%", "+"}] : k \in 1..n}

ParserIdle ==
  /\ mpc = "off" /\ parser = "" /\ price_text = <<>> /\ modifier = Null

InitParser ==
  /\ mpc = "input"
  /\ parser \in Parsers
  /\ price_text \in PriceTexts(MaxText)
  /\ modifier = Null

\* the parser is called on the price text
ParseModifier ==
  /\ mpc = "input"
  /\ modifier' \in Parse(parser, price_text)
  /\ mpc' = "parsed"
  /\ UNCHANGED <<parser, price_text, nvars, wvars, xvars, ivars, pvars, gvars, tvars>>

\* =========================================================================
\* Specifications
\* =========================================================================
NextNorm ==
  \/ NormalizeRows
  \/ CleanForInsert

NormOnly ==
  InitNorm /\ WorkersIdle /\ ExtractIdle /\ ImportIdle /\ PipelineIdle /\ ClassifierIdle /\ ParserIdle /\ WaitIdle

SpecNorm == NormOnly /\ [][NextNorm]_vars

NextWorkers ==
  \E w \in Workers :
    \/ AcquireIdLock(w)
    \/ AcquireServicesLockRead(w)
    \/ ReadNextServiceId(w)
    \/ ReleaseIdLock(w)
    \/ AcquireServicesLockWrite(w)
    \/ WriteServiceRow(w)
    \/ AcquireOptionsLockRead(w)
    \/ ReadNextOptionId(w)
    \/ AcquireOptionsLockWrite(w)
    \/ AppendOptionRows(w)

WorkersOnly ==
  InitWorkers /\ NormIdle /\ ExtractIdle /\ ImportIdle /\ PipelineIdle /\ ClassifierIdle /\ ParserIdle /\ WaitIdle

SpecWorkers == WorkersOnly /\ [][NextWorkers]_vars

\* the steps of one worker thread
WorkerStep(w) ==
  \/ AcquireIdLock(w)
  \/ AcquireServicesLockRead(w)
  \/ ReadNextServiceId(w)
  \/ ReleaseIdLock(w)
  \/ AcquireServicesLockWrite(w)
  \/ WriteServiceRow(w)
  \/ AcquireOptionsLockRead(w)
  \/ ReadNextOptionId(w)
  \/ AcquireOptionsLockWrite(w)
  \/ AppendOptionRows(w)

\* every thread of the pool is scheduled again and again: a worker that can
\* take a step from some point on takes one
SpecWorkersFair ==
  WorkersOnly /\ [][NextWorkers]_vars /\ \A w \in Workers : WF_vars(WorkerStep(w))

NextExtract ==
  \/ Baseline
  \/ SkipValue
  \/ ClickFails
  \/ ClickAndDiff
  \/ FinishLoop

ExtractOnly ==
  InitExtract /\ NormIdle /\ WorkersIdle /\ ImportIdle /\ PipelineIdle /\ ClassifierIdle /\ ParserIdle /\ WaitIdle

SpecExtract == ExtractOnly /\ [][NextExtract]_vars

NextScenario ==
  \/ Baseline
  \/ ClickAndDiff
  \/ FinishLoop

ScenarioOnly ==
  InitScenario /\ NormIdle /\ WorkersIdle /\ ImportIdle /\ PipelineIdle /\ ClassifierIdle /\ ParserIdle /\ WaitIdle

SpecScenario == ScenarioOnly /\ [][NextScenario]_vars

NextWait ==
  \/ Baseline
  \/ ClickFails
  \/ Click
  \/ PollChanged
  \/ PollUnchanged
  \/ WaitTimeout
  \/ Rescan
  \/ FinishLoop

WaitOnly ==
  InitWait /\ NormIdle /\ WorkersIdle /\ ImportIdle /\ PipelineIdle /\ ClassifierIdle /\ ParserIdle

\* the steps of the trigger loop
LoopStep ==
  \/ ClickFails
  \/ Click
  \/ PollChanged
  \/ PollUnchanged
  \/ WaitTimeout
  \/ Rescan
  \/ FinishLoop

\* the scraper is one sequential program and time.sleep returns: once in the
\* loop it always takes its next step
SpecWait == WaitOnly /\ [][NextWait]_vars /\ WF_vars(LoopStep)

NextImport ==
  \/ StartImport
  \/ BeginService
  \/ InsertParent
  \/ InsertChild
  \/ Commit
  \/ InsertRaises

ImportOnly ==
  InitImport /\ NormIdle /\ WorkersIdle /\ ExtractIdle /\ PipelineIdle /\ ClassifierIdle /\ ParserIdle /\ WaitIdle

SpecImport == ImportOnly /\ [][NextImport]_vars

RepeatedIdsOnly ==
  InitRepeatedIds /\ NormIdle /\ WorkersIdle /\ ExtractIdle /\ PipelineIdle /\ ClassifierIdle /\ ParserIdle /\ WaitIdle

SpecRepeatedIds == RepeatedIdsOnly /\ [][NextImport]_vars

NextPipeline ==
  \/ StartScrape
  \/ NoContainer
  \/ ScrapeRaises
  \/ Baseline
  \/ ClickFails
  \/ ClickAndDiff
  \/ FinishLoop
  \/ AppendOptions
  \/ RunImport
  \/ StartImport
  \/ BeginService
  \/ InsertParent
  \/ InsertChild
  \/ Commit
  \/ InsertRaises

PipelineOnly ==
  InitPipeline /\ NormIdle /\ WorkersIdle /\ ClassifierIdle /\ ParserIdle /\ WaitIdle

SpecPipeline == PipelineOnly /\ [][NextPipeline]_vars

NextClassifier ==
  \/ Classify
  \/ ClassifyAgain

ClassifierOnly ==
  InitClassifier /\ NormIdle /\ WorkersIdle /\ ExtractIdle /\ ImportIdle /\ PipelineIdle /\ ParserIdle /\ WaitIdle

SpecClassifier == ClassifierOnly /\ [][NextClassifier]_vars

NextParser ==
  ParseModifier

ParserOnly ==
  InitParser /\ NormIdle /\ WorkersIdle /\ ExtractIdle /\ ImportIdle /\ PipelineIdle /\ ClassifierIdle /\ WaitIdle

SpecParser == ParserOnly /\ [][NextParser]_vars

\* =========================================================================
\* Claims
\* =========================================================================

\* C9: every option_type a writer of the snapshot scrapers emits is, after
\* normalize_option_types_in_rows and again after clean_option_types, one of
\* slider, range, radio, checkbox, dropdown.
C9_ClosedVocabulary ==
  (\A i \in 1..Len(nraw) : nraw[i].option_type \in WriterTypes) =>
     /\ npc \in {"norm1", "norm2", "cleaned"} =>
          \A i \in 1..Len(nrows) : nrows[i].option_type \in Vocabulary
     /\ npc = "cleaned" =>
          \A i \in 1..Len(ncleaned) : ncleaned[i].option_type \in Vocabulary

\* a batch holding a button child row of the test scraper reached the insert
C9_Witness ==
  /\ npc = "cleaned"
  /\ \A i \in 1..Len(nraw) : nraw[i].option_type \in WriterTypes
  /\ \E i \in 1..Len(nraw) : nraw[i].option_type = <<"button", Suffix>>
  /\ \E i \in 1..Len(ncleaned) : ncleaned[i].option_type = <<"radio">>

AllOptions == db_options \cup tx_options

IsOptionRow(r) == "csv_option_id" \in DOMAIN r

FileRowOf(oid) == CHOOSE i \in 1..Len(opt_file) : opt_file[i].option_id = oid

\* C1: when an insert for service k raises, no row of k's transaction is
\* visible after the run, and every row committed before k still is.
C1_AtomicPerService ==
  ipc = "failed" =>
    /\ \A r \in db_services \cup db_options : r.txn # <<run, sidx>>
    /\ discarded \cap (db_services \cup db_options) = {}
    /\ committed_in_run \subseteq db_services \cup db_options
    /\ before_run[1] \subseteq Stored(db_services)
    /\ before_run[2] \subseteq Stored(db_options)

\* the second service failed after its service row and an option row were
\* inserted, the first service being committed with its options
C1_Witness ==
  /\ ipc = "failed" /\ sidx = 2
  /\ \E r \in discarded : ~IsOptionRow(r)
  /\ \E r \in discarded : IsOptionRow(r)
  /\ \E r \in committed_in_run : IsOptionRow(r)

\* every parent_option_id of the file names a row of the same service with a
\* smaller option_id
ParentsPrecede ==
  \A i \in 1..Len(opt_file) :
    opt_file[i].parent_option_id # NoParent =>
      \E j \in 1..Len(opt_file) :
        /\ opt_file[j].option_id = opt_file[i].parent_option_id
        /\ opt_file[j].service_id = opt_file[i].service_id
        /\ opt_file[j].option_id < opt_file[i].option_id

\* C2: on such a file every row is inserted after its parent row and stores
\* the storage id assigned to that parent row in the same transaction; no
\* such row is stored with a null parent.
C2_ParentLinkage ==
  ParentsPrecede =>
    \A r \in AllOptions :
      opt_file[FileRowOf(r.csv_option_id)].parent_option_id # NoParent =>
        \E p \in AllOptions :
          /\ p.id = r.parent_option_id
          /\ p.csv_option_id = opt_file[FileRowOf(r.csv_option_id)].parent_option_id
          /\ p.txn = r.txn
          /\ p.id < r.id

\* a committed chain of depth three: group, choice, attached group, its child
C2_Witness ==
  /\ ipc = "done" /\ ParentsPrecede
  /\ \E a, b, c \in db_options :
       /\ a.parent_option_id = NoParent
       /\ b.parent_option_id = a.id
       /\ c.parent_option_id = b.id

\* C8: a second run of the import over the same files leaves the stored
\* service rows and option rows as the first run left them.
C8_ImportIdempotent ==
  (run >= 2 /\ ipc = "done") =>
    <<Stored(db_services), Stored(db_options)>> = before_run

\* the rows of r's transaction that were in the id map under r's file parent
\* when r was inserted
MappedParents(r) ==
  {p \in AllOptions : /\ p.txn = r.txn
                      /\ p.csv_option_id = opt_file[FileRowOf(r.csv_option_id)].parent_option_id
                      /\ p.id < r.id}

\* C13: a row whose parent_option_id is not in the id map is stored with a
\* null parent, every other row stores the storage id of its parent, and a
\* finished run has committed one row for every file row of every service.
C13_ReferentialGapNonFatal ==
  /\ \A r \in AllOptions :
       IF MappedParents(r) = {}
       THEN r.parent_option_id = NoParent
       ELSE r.parent_option_id \in {p.id : p \in MappedParents(r)}
  /\ ipc = "done" =>
       \A k \in 1..Len(svc_file), i \in 1..Len(opt_file) :
         opt_file[i].service_id = svc_file[k].service_id =>
           Cardinality({r \in db_options : /\ r.txn = <<run, k>>
                                           /\ r.csv_option_id = opt_file[i].option_id}) = 1

\* a committed service with a row whose parent is in no row of the file,
\* stored with a null parent, next to a row stored under its parent
C13_Witness ==
  /\ ipc = "done"
  /\ \E r, q \in db_options :
       /\ r.txn = q.txn /\ r # q
       /\ opt_file[FileRowOf(r.csv_option_id)].parent_option_id # NoParent
       /\ \A i \in 1..Len(opt_file) :
            opt_file[i].option_id # opt_file[FileRowOf(r.csv_option_id)].parent_option_id
       /\ r.parent_option_id = NoParent
       /\ q.parent_option_id # NoParent

\* the stored services insert_service can reuse for a name
SameNameServices(name) ==
  {s \in db_services \cup tx_services : s.game_id = FORCE_GAME_ID /\ s.name = name}

\* C14: insert_service returns the id of a stored service of the same
\* collection and name and inserts nothing when reuse is enabled and such a
\* service exists; otherwise it inserts exactly one row and returns its id.
C14_ResolveOrCreate ==
  [][(ipc = "begin" /\ ipc' = "inserting") =>
       LET name == svc_file[sidx].name
       IN  IF REUSE_EXISTING_SERVICE_BY_NAME /\ name # "" /\ SameNameServices(name) # {}
           THEN /\ tx_services' = tx_services
                /\ db_service_id' \in {s.id : s \in SameNameServices(name)}
           ELSE /\ Cardinality(tx_services' \ tx_services) = 1
                /\ tx_services \subseteq tx_services'
                /\ \A s \in tx_services' \ tx_services :
                     /\ s.id = db_service_id'
                     /\ s.name = name /\ s.game_id = FORCE_GAME_ID
                     /\ \A t \in db_services \cup tx_services : t.id # s.id]_vars

\* a run that reused the first service for the second file row and a run
\* that created a second service
C14_Witness ==
  /\ ipc = "done" /\ run = 1 /\ Len(svc_file) = 2
  /\ svc_file[1].name # svc_file[2].name
  /\ Cardinality(db_services) = 2

\* ------------------------------------------------------ batch vocabulary
\* group rows carry no option_value; every other row is a choice/value row
GroupRowIdx == {i \in 1..Len(rows_out) : rows_out[i].option_value = NoValue}

ChildrenOf(i) ==
  {j \in 1..Len(rows_out) : rows_out[j].parent_option_id = rows_out[i].option_id}

GroupRowsOfType(t) == {i \in GroupRowIdx : rows_out[i].option_type = t}

EmissionsOf(g) == {e \in 1..Len(emitted) : emitted[e].sig = Signature(g)}

SeenByEveryScan(g) == \A k \in 1..Len(scans) : \E j \in 1..Len(scans[k]) : scans[k][j] = g

\* C3: a baseline group whose content is the same in every rescan is written
\* exactly once, as a top-level group, whatever the other visible groups are.
C3_UnaffectedEmittedOnce ==
  xpc = "done" =>
    \A i \in 1..Len(page0) :
      (page0[i].kind \in WritableKinds(variant) /\ SeenByEveryScan(page0[i])) =>
         /\ Cardinality(EmissionsOf(page0[i])) = 1
         /\ \A e \in EmissionsOf(page0[i]) : emitted[e].parent = NoParent

\* C4: the scenario batch is 1 range group row + 2 children, 1 radio group
\* row + 3 children and 1 checkbox group row with its children under the
\* Hard choice row, nothing else, in whatever order the choices are clicked.
C4_ScenarioBatch ==
  (scenario /\ xpc = "done") =>
    /\ Len(rows_out) = 3 + 4 + 1 + Len(reveal[1].items)
    /\ \E r \in GroupRowsOfType(<<"range">>) :
         /\ GroupRowsOfType(<<"range">>) = {r}
         /\ rows_out[r].parent_option_id = NoParent
         /\ Cardinality(ChildrenOf(r)) = 2
    /\ \E d \in GroupRowsOfType(<<"radio">>) :
         /\ GroupRowsOfType(<<"radio">>) = {d}
         /\ rows_out[d].parent_option_id = NoParent
         /\ Cardinality(ChildrenOf(d)) = 3
         /\ \E c \in GroupRowsOfType(<<"checkbox">>), h \in ChildrenOf(d) :
              /\ GroupRowsOfType(<<"checkbox">>) = {c}
              /\ rows_out[h].option_value = "hard"
              /\ rows_out[c].parent_option_id = rows_out[h].option_id
              /\ Cardinality(ChildrenOf(c)) = Len(reveal[1].items)

\* C5: every row of the batch with a parent refers to the option_id of a row
\* that stands earlier in the batch.
C5_TreeIntegrity ==
  \A i \in 1..Len(rows_out) :
    rows_out[i].parent_option_id # NoParent =>
      \E j \in 1..(i - 1) : rows_out[j].option_id = rows_out[i].parent_option_id

\* a finished batch with a group attached under a trigger choice and a child
\* row of that group
C5_Witness ==
  /\ xpc = "done"
  /\ \E g \in GroupRowIdx :
       /\ rows_out[g].parent_option_id # NoParent
       /\ ChildrenOf(g) # {}
       /\ \E h \in 1..Len(rows_out) :
            /\ rows_out[h].option_id = rows_out[g].parent_option_id
            /\ rows_out[h].parent_option_id # NoParent

\* C6: no two rows of the services file carry the same service_id.
C6_UniqueServiceIds ==
  \A i, j \in 1..Len(services_csv) :
     i # j => services_csv[i].service_id # services_csv[j].service_id

\* C7: no two rows of the options file carry the same option_id.
C7_UniqueOptionIds ==
  \A i, j \in 1..Len(options_csv) :
     i # j => options_csv[i].option_id # options_csv[j].option_id

\* ------------------------------------------------------ scrape-loop claims
\* the rows of the options file that belong to one batch and one parent scope
SameScope(i, j) ==
  /\ opt_file[i].service_id = opt_file[j].service_id
  /\ opt_file[i].parent_option_id = opt_file[j].parent_option_id

\* C11: of two rows of one batch under the same parent (or both top-level),
\* the one extracted earlier has the strictly smaller display_order, is
\* inserted first by the import and is stored with its display_order unchanged
\* (checked on every insert against the rows its transaction already holds).
C11_DisplayOrderPreserved ==
  /\ [](\A i, j \in 1..Len(opt_file) :
          (i < j /\ SameScope(i, j)) => opt_file[i].display_order < opt_file[j].display_order)
  /\ [][\A new \in tx_options' \ tx_options :
          LET j == FileRowOf(new.csv_option_id)
          IN  /\ new.display_order = opt_file[j].display_order
              /\ \A r \in tx_options :
                   LET i == FileRowOf(r.csv_option_id)
                   IN  SameScope(i, j) =>
                         /\ i < j
                         /\ r.id < new.id
                         /\ r.display_order < new.display_order]_vars

C11_Witness ==
  /\ ipc = "done"
  /\ \E r, q, c, d \in db_options :
       /\ r.txn = q.txn /\ q.txn = c.txn /\ c.txn = d.txn
       /\ r.parent_option_id = NoParent /\ q.parent_option_id = NoParent /\ r.id < q.id
       /\ c.parent_option_id = d.parent_option_id /\ c.parent_option_id # NoParent
       /\ c.id < d.id /\ c.display_order < d.display_order
       /\ \E g \in db_options : g.txn = r.txn /\ g.parent_option_id \notin {NoParent, r.id, q.id}

\* C12: the option ids of a batch are consecutive in emission order and start
\* at 1 + the largest option_id of the options file, so after any sequence of
\* extract-then-append runs the ids of the file are distinct and increase in
\* file order.
C12_DenseContinuedOptionIds ==
  /\ ppc = "scraping" =>
       \A i \in 1..Len(rows_out) :
         rows_out[i].option_id = get_next_option_id(opt_file) + i - 1
  /\ \A i \in 1..(Len(opt_file) - 1) :
       opt_file[i + 1].option_id = opt_file[i].option_id + 1
  /\ \A i, j \in 1..Len(opt_file) :
       i < j => opt_file[i].option_id < opt_file[j].option_id

C12_Witness ==
  /\ ppc = "ready" /\ Len(results) = 2
  /\ results[1].ok /\ results[1].options > 0
  /\ results[2].ok /\ results[2].options > 0
  /\ Len(opt_file) = results[1].options + results[2].options

\* C15: a product page without an options container gives an empty batch
\* without an exception, and the scrape of that service ends as a success
\* with zero options.
C15_MissingContainerNonFatal ==
  \A k \in 1..Len(results) :
    ~results[k].container => (results[k].ok /\ results[k].options = 0)

\* ------------------------------------------------------- classifier claims
SixKinds == {"slider", "range", "radio", "buttons", "checkbox", "select"}

C17_SignatureSensitivity ==
  (/\ gpc = "compared"
   /\ changed \in {"label", "value", "price", "bound", "input"}
   /\ rescan_el # group_el
   /\ first_sig.kind \in SixKinds) => second_sig.sig # first_sig.sig

\* ----------------------------------------------------------- parser claims
\* a bare number counts as an absolute modifier
Absolute(m, value) == m.kind \in {"absolute", "number"} /\ m.value = value

\* C18: the modifier parser gives absolute 0.00 for "Free", absolute 6.43
\* for "+6,43 E", percent 50 for "+50%" and null for the empty text; a text
\* ending in % gives a percent modifier, a comma next to a dot is a thousands
\* separator and a lone comma the decimal separator.
C18_PriceModifierParsing ==
  mpc = "parsed" =>
    /\ price_text = <<"F", "r", "e", "e">> => Absolute(modifier, Zero)
    /\ price_text = <<"+", "6", ",", "4", "3", " ", "E">> =>
         Absolute(modifier, Number(FALSE, <<"6">>, <<"4", "3">>))
    /\ price_text = <<"+", "5", "0", "%">> =>
         modifier = Modifier("percent", Number(FALSE, <<"5", "0">>, <<>>))
    /\ price_text = <<>> => modifier = Null
    /\ (price_text # <<>> /\ price_text[Len(price_text)] = "%"
        /\ IsFloat(SubSeq(price_text, 1, Len(price_text) - 1))) =>
         modifier = Modifier("percent", Float(SubSeq(price_text, 1, Len(price_text) - 1)))
    /\ price_text = <<"1", ",", "2", "3", "4", ".", "5", "6">> =>
         Absolute(modifier, Number(FALSE, <<"1", "2", "3", "4">>, <<"5", "6">>))
    /\ price_text = <<"5", ",", "5">> =>
         Absolute(modifier, Number(FALSE, <<"5">>, <<"5">>))

\* ------------------------------------------------------- diff-loop claims
\* the row of the trigger group and the choice row written for a value
TriggerRow ==
  (CHOOSE e \in Range(emitted) : e.key = <<"radio", DifficultyLabel>> /\ e.parent = NoParent).row

TriggerChoiceRow(val) ==
  (CHOOSE r \in Range(rows_out) :
     r.parent_option_id = TriggerRow /\ r.option_value = val).option_id

\* the groups of a rescan that the diff compares, and the first of a key
Compared(cur) == {j \in 1..Len(cur) : ~IsDifficulty(cur[j])}

FirstOfKey(cur, j) == \A i \in Compared(cur) : Key(cur[i]) = Key(cur[j]) => j <= i

LastOfKey(cur, j) == \A i \in Compared(cur) : Key(cur[i]) = Key(cur[j]) => i <= j

\* C19: in the trigger loop a rescanned group whose signature differs from
\* the one recorded for its (kind, label) key, or whose key has no record, is
\* written with its group row under the choice row of the trigger value just
\* selected, and the key's recorded signature becomes the new signature.
C19_ChangedGroupsUnderSelectedChoice ==
  [][(xpc = "loop" /\ Len(scans') = Len(scans) + 1) =>
       LET cur == scans'[Len(scans')]
           new == SubSeq(emitted', Len(emitted) + 1, Len(emitted'))
       IN  /\ \A e \in Range(new) : e.parent = TriggerChoiceRow(radio_values[vi])
           /\ \A j \in Compared(cur) :
                /\ (/\ FirstOfKey(cur, j)
                    /\ cur[j].kind \in WritableKinds(variant)
                    /\ (Key(cur[j]) \in DOMAIN baseline_sigs =>
                          baseline_sigs[Key(cur[j])] # Signature(cur[j])))
                   => \E e \in Range(new) : e.sig = Signature(cur[j])
                /\ LastOfKey(cur, j) => baseline_sigs'[Key(cur[j])] = Signature(cur[j])]_vars

\* C20: a group revealed by a later trigger value with the signature that was
\* recorded when an earlier trigger value revealed it is not written again:
\* it is a child of the earlier choice only.
C20_RepeatedSignatureSuppressed ==
  \A a, b \in 1..Len(emitted) :
    (/\ emitted[a].sig = emitted[b].sig
     /\ emitted[a].parent # NoParent /\ emitted[b].parent # NoParent)
    => emitted[a].parent = emitted[b].parent

\* C21: within one batch no group is written twice with the same kind, label
\* and signature, at baseline or under any trigger value, whatever the scans
\* of the page show from one trigger value to the next.
C21_NoBlockAddedTwice ==
  \A a, b \in 1..Len(emitted) :
    (emitted[a].key = emitted[b].key /\ emitted[a].sig = emitted[b].sig) => a = b

\* the groups of the page that a writer exists for, and the batch's group rows
WrittenGroups == SelectSeq(page0, LAMBDA g : g.kind \in WritableKinds(variant))

GroupRows == SelectSeq(rows_out, LAMBDA r : r.option_value = NoValue)

RECURSIVE BatchSize(_)
BatchSize(groups) ==
  IF groups = <<>> THEN 0
  ELSE 1 + ChildCount(variant, Head(groups)) + BatchSize(Tail(groups))

\* C22: when no baseline group is the radio group labelled Difficulty, the
\* extraction clicks nothing and returns the baseline rows only: one group row
\* per written baseline group, in page order, each with a null parent, and
\* their child rows.
C22_NoTriggerGroup ==
  (xpc = "done" /\ \A i \in 1..Len(page0) : ~IsDifficulty(page0[i])) =>
    /\ scans = <<>> /\ radio_values = <<>> /\ vi = 1
    /\ Len(GroupRows) = Len(WrittenGroups)
    /\ Len(rows_out) = BatchSize(WrittenGroups)
    /\ \A i \in 1..Len(GroupRows) :
         /\ GroupRows[i].option_name = WrittenGroups[i].label
         /\ GroupRows[i].parent_option_id = NoParent
    /\ \A i \in 1..Len(rows_out) :
         rows_out[i].option_value # NoValue =>
           \E g \in 1..Len(GroupRows) : GroupRows[g].option_id = rows_out[i].parent_option_id

\* a finished batch of a page whose only radio group is not the trigger
C22_Witness ==
  /\ xpc = "done"
  /\ \A i \in 1..Len(page0) : ~IsDifficulty(page0[i])
  /\ \E i \in 1..Len(page0) : page0[i].kind = "radio"
  /\ Len(GroupRows) >= 3
  /\ Len(rows_out) > Len(GroupRows)

\* C23: when the input of a trigger value that has a choice row is not found
\* or its click raises (the value is left without a rescan), no row is
\* written, the recorded signatures and the option_id and display_order
\* cursors stay as they were, and the loop stands at the next trigger value.
C23_InteractionFailureSkipsOneValue ==
  [][(/\ xpc = "loop" /\ vi <= Len(radio_values)
      /\ radio_values[vi] \in DOMAIN radio_value_parent_row_ids
      /\ scans' = scans)
     => /\ rows_out' = rows_out /\ emitted' = emitted
        /\ baseline_sigs' = baseline_sigs
        /\ option_id' = option_id /\ display_order' = display_order
        /\ radio_values' = radio_values
        /\ radio_value_parent_row_ids' = radio_value_parent_row_ids
        /\ xpc' = "loop" /\ vi' = vi + 1]_vars

\* the first trigger value failed, the second was clicked and a group was
\* written under its choice row
C23_Witness ==
  /\ xpc = "done"
  /\ Len(radio_values) = 2 /\ Len(scans) = 1
  /\ \A k \in 1..2 : radio_values[k] \in DOMAIN radio_value_parent_row_ids
  /\ \E e \in 1..Len(emitted) :
       emitted[e].parent = radio_value_parent_row_ids[radio_values[2]]

\* C24: after a click the wait ends at the first poll that sees a change and
\* otherwise when the timeout is over, never after more polls than fit into
\* it; a timeout is a normal return after which the rescan runs; every
\* position of the trigger's values is clicked at most once, every click is
\* followed by its rescan, and the extraction, which enters the loop or is
\* done in one step, reaches done from wherever it stands in the loop.
C24_BoundedWaitAndTermination ==
  /\ [](/\ polls <= MaxPolls
        /\ \A a, b \in 1..Len(clicks) : a < b => clicks[a] < clicks[b]
        /\ xpc \in {"loop", "done"} => Len(scans) = Len(clicks))
  /\ [][/\ xpc = "start" => xpc' \in {"loop", "done"}
        /\ xpc = "waiting" =>
             /\ wait_result' = "changed" => xpc' = "rescan"
             /\ polls = MaxPolls => (xpc' = "rescan" /\ wait_result' = "timeout")
             /\ xpc' = "rescan" => wait_result' \in {"changed", "timeout"}
             /\ xpc' \in {"waiting", "rescan"}]_vars
  /\ (xpc = "rescan" /\ wait_result = "timeout") ~> (xpc = "loop")
  /\ (xpc = "loop") ~> [](xpc = "done")

\* a finished extraction of three clicks whose last wait ran into the timeout
\* and was followed by its rescan, with the revealed group written
C24_Witness ==
  /\ xpc = "done"
  /\ Len(clicks) = 3 /\ Len(scans) = 3
  /\ wait_result = "timeout" /\ polls = MaxPolls
  /\ \E e \in 1..Len(emitted) : emitted[e].parent # NoParent

\* the radio inputs of the trigger group in DOM order
DomOrder ==
  LET g == page0[DifficultyIndex(page0)] IN g.items \o g.hidden

\* the group row a row of the batch belongs to (itself, for a group row)
GroupOf(i) ==
  IF rows_out[i].option_value = NoValue THEN i
  ELSE CHOOSE j \in 1..Len(rows_out) : rows_out[j].option_id = rows_out[i].parent_option_id

\* 0 for a baseline row; for a row written in the loop the DOM position of
\* the trigger value under whose choice row its group was attached
AttachedAt(i) ==
  LET p == rows_out[GroupOf(i)].parent_option_id
  IN  IF p = NoParent THEN 0
      ELSE CHOOSE k \in 1..Len(DomOrder) :
             /\ DomOrder[k] \in DOMAIN radio_value_parent_row_ids
             /\ radio_value_parent_row_ids[DomOrder[k]] = p

\* C25: the batch only grows at its end; the baseline rows come first, then
\* the rows attached for each trigger value, the values taken in DOM order one
\* after the other, each with its whole click-rescan-diff: a row attached
\* under an earlier value's choice stands before every row attached under a
\* later one (the position of attachment never decreases along the batch).
C25_ExtractionOrder ==
  /\ [](\A i \in 1..(Len(rows_out) - 1) : AttachedAt(i) <= AttachedAt(i + 1))
  /\ [][/\ Len(rows_out') >= Len(rows_out)
        /\ SubSeq(rows_out', 1, Len(rows_out)) = rows_out
        /\ vi' \in {vi, vi + 1}
        /\ xpc = "loop" => radio_values = DomOrder
        /\ (xpc = "loop" /\ rows_out' # rows_out) =>
             /\ vi' = vi + 1
             /\ \A i \in (Len(rows_out) + 1)..Len(rows_out') :
                  LET r == rows_out'[i]
                  IN  r.option_value = NoValue =>
                        r.parent_option_id = radio_value_parent_row_ids[DomOrder[vi]]]_vars

\* a finished batch with two baseline groups and a group under each of two
\* trigger choices
C25_Witness ==
  /\ xpc = "done"
  /\ \E a, b, c, d \in 1..Len(rows_out) :
       /\ a < b /\ b < c /\ c < d
       /\ rows_out[a].option_value = NoValue /\ rows_out[b].option_value = NoValue
       /\ GroupOf(a) # GroupOf(b)
       /\ AttachedAt(a) = 0 /\ AttachedAt(b) = 0
       /\ AttachedAt(c) = 1 /\ AttachedAt(d) = 2

\* C26: every slider group of the batch is one group row with exactly one
\* child row, and every range group one group row with exactly two child
\* rows, whatever per-input labels and inputs the group shows.
C26_NumericLayouts ==
  /\ \A i \in GroupRowsOfType(<<"slider">>) : Cardinality(ChildrenOf(i)) = 1
  /\ \A i \in GroupRowsOfType(<<"range">>) : Cardinality(ChildrenOf(i)) = 2

\* C27: after any sequence of scrape attempts of complete_code.main, failed
\* ones included, no two rows of the services file carry the same service_id.
C27_DistinctPipelineServiceIds ==
  variant = "fixed" =>
    \A i, j \in 1..Len(svc_file) :
      i # j => svc_file[i].service_id # svc_file[j].service_id

\* the rows stored, or held by the open transaction, for service s of run r
RowsOfTxn(r, s) ==
  {x \in db_services \cup db_options \cup tx_services \cup tx_options : x.txn = <<r, s>>}

\* C28: once an insert has raised for the k-th service of a run, the import
\* is over: the transaction of k is rolled back, the cursor and the
\* connection are closed, nothing is stored or attempted for k or for a
\* service after k in that run, and every service before k stays committed
\* with all its option rows.
C28_ImportStopsAtFirstFailure ==
  /\ [](raised # <<>> =>
          /\ ipc = "failed" /\ cnx = "closed"
          /\ run = raised[1] /\ sidx = raised[2]
          /\ tx_services = {} /\ tx_options = {}
          /\ \A s \in raised[2]..Len(svc_file) : RowsOfTxn(raised[1], s) = {}
          /\ committed_in_run \subseteq db_services \cup db_options
          /\ \A s \in 1..(raised[2] - 1) :
               Cardinality({x \in db_options : x.txn = <<raised[1], s>>})
                 = Len(OptionsOfService(opt_file, svc_file[s].service_id)))
  /\ [][raised # <<>> => UNCHANGED <<db_services, db_options, run, sidx, ipc, cnx>>]_vars

\* the first of two services failed after rows of it were inserted; the
\* second, which has option rows in the file, was not attempted
C28_Witness ==
  /\ raised # <<>> /\ raised[2] = 1 /\ Len(svc_file) = 2
  /\ \E r \in discarded : IsOptionRow(r)
  /\ OptionsOfService(opt_file, svc_file[2].service_id) # <<>>
  /\ RowsOfTxn(raised[1], 2) = {}

\* C29: every stored option row with a parent has as parent a row inserted
\* for the same service in the same transaction, also when the services'
\* batches use the same option_id values.
C29_ParentResolutionPerService ==
  \A r \in db_options \cup tx_options :
    r.parent_option_id # NoParent =>
      \E q \in db_options \cup tx_options :
        /\ q.id = r.parent_option_id
        /\ q.txn = r.txn
        /\ q.service_id = r.service_id

\* two services were imported whose batches both have a row with option_id 1;
\* the child of the second service is stored under the row of its own service
C29_Witness ==
  /\ ipc = "done"
  /\ \E r1, r2, c2 \in db_options :
       /\ r1.txn = <<1, 1>> /\ r2.txn = <<1, 2>> /\ c2.txn = <<1, 2>>
       /\ r1.csv_option_id = r2.csv_option_id
       /\ r1.service_id # r2.service_id
       /\ c2.parent_option_id = r2.id

\* ------------------------------------------------------------ lock claims
\* the worker stands before a "with <lock>" whose lock another thread holds
Blocked(w) ==
  \/ wpc[w] = "start" /\ id_lock # 0
  \/ wpc[w] \in {"id_locked", "parsed"} /\ services_lock # 0
  \/ wpc[w] \in {"svc_written", "extracted"} /\ options_lock # 0

Unfinished == {w \in Workers : wpc[w] # "done"}

\* C30: in no reachable state is every unfinished worker blocked on a lock;
\* a worker that takes services_lock or options_lock holds no other lock but
\* id_lock, and takes id_lock holding none; under fair scheduling every
\* worker finishes and all three locks end up free.
C30_NoDeadlock ==
  /\ [](Unfinished # {} => \E w \in Unfinished : ~Blocked(w))
  /\ [](\A w \in Workers :
          /\ options_lock = w => (id_lock # w /\ services_lock # w)
          /\ wpc[w] = "done" => (id_lock # w /\ services_lock # w /\ options_lock # w))
  /\ [][\A w \in Workers :
          /\ (id_lock' = w /\ id_lock # w) => (services_lock # w /\ options_lock # w)
          /\ (services_lock' = w /\ services_lock # w) => options_lock # w]_vars
  /\ <>[](/\ \A w \in Workers : wpc[w] = "done"
          /\ id_lock = 0 /\ services_lock = 0 /\ options_lock = 0)

\* a worker holds id_lock and waits for services_lock, which another worker
\* holds while it writes its service row
C30_Witness ==
  \E w, u \in Workers :
    /\ w # u
    /\ id_lock = w /\ wpc[w] = "id_locked"
    /\ services_lock = u /\ wpc[u] = "svc_writing"
    /\ Blocked(w)

====
